---- MODULE Spec2Model ----
(***************************************************************************)
(* Sprite sheet layout and partitioning engine of factorio-utils:          *)
(*   reduce_rotation.py   (frame selection, reduce_single, regroup_files)  *)
(*   auto_merge_sprites.py (find_split_layout, process_component)          *)
(*                                                                         *)
(* Python values are modelled as follows.  A list is a sequence.  None is  *)
(* the integer None (-1), which no count, size or index ever takes.  A     *)
(* call that raises returns a record with kind = "error".                  *)
(***************************************************************************)
EXTENDS Integers, Sequences, FiniteSets, TLC

VARIABLES
    call,       \* pure-function harness: the function called and its arguments
    ret,        \* pure-function harness: what the call returned
    prog,       \* which tool runs: "merge" (auto_merge_sprites) or "reduce" (reduce_rotation)
    args,       \* the tool's arguments
    pc,         \* position of the tool's main()
    idx,        \* loop index of main(): component (merge) or input file (reduce)
    results,    \* reduce: the list `results` of main(), one (out_path, img, fw, fh, count) per input
    written,    \* every sheet written by the step just taken: <<[path, sheet]>>
    plan,       \* what find_split_layout gave the step just taken
    storage,    \* reduce: the files on storage, path -> image
    job,        \* the call made by the step just taken, with what it computed
    exit        \* merge: outcome of the component just processed; reduce: main()'s exit code

vars == <<call, ret, prog, args, pc, idx, results, written, plan, storage, job, exit>>

----------------------------------------------------------------------------
(* Bounds of the model *)

MaxFrameCount == 64
MaxSkip == 4
MaxGroup == 8
MaxRowLength == 4
MaxMergeFrames == 8

(* Python's None, for integer-valued parameters *)
None == -1

(* Frame widths and heights, in pixels, around MAX_DIMENSION = 8192 *)
Sizes == {1000, 2048, 3000, 4096, 8192, 9000}

----------------------------------------------------------------------------
(* Python built-ins *)

Min(a, b) == IF a <= b THEN a ELSE b

\* range(start, stop, step), step >= 1
range(start, stop, step) ==
    [k \in 1..((stop - start + step - 1) \div step) |-> start + (k - 1) * step]

\* math.ceil(a / b) for a >= 0, b >= 1
ceil_div(a, b) == (a + b - 1) \div b

\* math.ceil(math.sqrt(n)) for n >= 1: the least c with c*c >= n
ceil_sqrt(n) == CHOOSE c \in 1..n : c * c >= n /\ (c - 1) * (c - 1) < n

\* sorted(s): stable ascending sort; s[k] goes to the place after every smaller
\* element and every equal element that precedes it
sorted(s) ==
    LET place(k) == 1 + Cardinality({j \in 1..Len(s) : s[j] < s[k] \/ (s[j] = s[k] /\ j < k)})
    IN  [i \in 1..Len(s) |-> s[CHOOSE k \in 1..Len(s) : place(k) = i]]

\* s[::-1]
reversed(s) == [k \in 1..Len(s) |-> s[Len(s) + 1 - k]]

\* sorted(s, reverse=True)
sorted_reverse(s) == reversed(sorted(s))

Elems(s) == {s[k] : k \in 1..Len(s)}

----------------------------------------------------------------------------
(* reduce_rotation.py: constants and layout *)

MAX_DIMENSION == 8192

FRAME_COLUMN_MAPPING ==
    (1 :> 1) @@ (2 :> 2) @@ (3 :> 3) @@ (4 :> 2) @@ (5 :> 3) @@ (6 :> 3) @@
    (7 :> 4) @@ (8 :> 4) @@ (9 :> 3) @@ (10 :> 5) @@ (12 :> 4) @@ (16 :> 4) @@
    (20 :> 5) @@ (24 :> 6) @@ (25 :> 8) @@ (32 :> 8) @@ (64 :> 8) @@
    (128 :> 16) @@ (256 :> 16) @@ (512 :> 16)

\* get_grid_layout with the square root rounded down: int(math.sqrt(frame_count))
get_grid_layout_floor(frame_count) ==
    IF frame_count \in DOMAIN FRAME_COLUMN_MAPPING
    THEN FRAME_COLUMN_MAPPING[frame_count]
    ELSE CHOOSE c \in 1..frame_count : c * c <= frame_count /\ (c + 1) * (c + 1) > frame_count

get_grid_layout(frame_count) ==
    IF frame_count \in DOMAIN FRAME_COLUMN_MAPPING
    THEN FRAME_COLUMN_MAPPING[frame_count]
    ELSE ceil_sqrt(frame_count)

RECURSIVE divisors_loop(_, _, _)
divisors_loop(n, i, divisors) ==
    IF i * i <= n
    THEN divisors_loop(n, i + 1,
            IF n % i = 0
            THEN IF i # n \div i
                 THEN Append(Append(divisors, i), n \div i)
                 ELSE Append(divisors, i)
            ELSE divisors)
    ELSE divisors

\* get_divisors with reverse=True forgotten
get_divisors_ascending(n) == sorted(divisors_loop(n, 1, <<>>))

get_divisors(n) == sorted_reverse(divisors_loop(n, 1, <<>>))

(* What find_split_layout gives: None, a plan (num_files, cols, rows), or an error raised *)
NoSplit == [kind |-> "none", num_files |-> 0, cols |-> 0, rows |-> 0, msg |-> ""]
SplitPlan(num_files, cols, rows) ==
    [kind |-> "plan", num_files |-> num_files, cols |-> cols, rows |-> rows, msg |-> ""]
Raised(msg) == [kind |-> "error", num_files |-> 0, cols |-> 0, rows |-> 0, msg |-> msg]

\* scan_cols over range(2, limit + 1): a single column is never tried
RECURSIVE scan_cols_from_two(_, _, _, _, _, _)
scan_cols_from_two(frames_per_file, cols, limit, max_rows, width, height) ==
    IF cols > limit THEN 0
    ELSE IF cols = 1 \/ frames_per_file % cols # 0
    THEN scan_cols_from_two(frames_per_file, cols + 1, limit, max_rows, width, height)
    ELSE IF /\ frames_per_file \div cols <= max_rows
            /\ cols * width <= MAX_DIMENSION
            /\ (frames_per_file \div cols) * height <= MAX_DIMENSION
    THEN cols
    ELSE scan_cols_from_two(frames_per_file, cols + 1, limit, max_rows, width, height)

\* lines 77-84: the first cols in cols..limit that divides frames_per_file and fits, or 0
RECURSIVE scan_cols(_, _, _, _, _, _)
scan_cols(frames_per_file, cols, limit, max_rows, width, height) ==
    IF cols > limit THEN 0
    ELSE IF frames_per_file % cols # 0
    THEN scan_cols(frames_per_file, cols + 1, limit, max_rows, width, height)
    ELSE IF /\ frames_per_file \div cols <= max_rows
            /\ cols * width <= MAX_DIMENSION
            /\ (frames_per_file \div cols) * height <= MAX_DIMENSION
    THEN cols
    ELSE scan_cols(frames_per_file, cols + 1, limit, max_rows, width, height)

\* scan_divisors that skips frame_count // 2 as well as frame_count
RECURSIVE scan_divisors_skip_half(_, _, _, _, _, _, _)
scan_divisors_skip_half(divisors, k, frame_count, max_cols, max_rows, width, height) ==
    IF k > Len(divisors) THEN NoSplit
    ELSE IF divisors[k] * 2 >= frame_count /\ divisors[k] # 1
    THEN scan_divisors_skip_half(divisors, k + 1, frame_count, max_cols, max_rows,
                                 width, height)
    ELSE LET frames_per_file == divisors[k]
             cols == scan_cols(frames_per_file, 1, Min(frames_per_file, max_cols),
                               max_rows, width, height)
         IN  IF cols # 0
             THEN SplitPlan(frame_count \div frames_per_file, cols, frames_per_file \div cols)
             ELSE scan_divisors_skip_half(divisors, k + 1, frame_count, max_cols, max_rows,
                                          width, height)

\* lines 74-85: the loop over get_divisors(frame_count), from its k-th element
RECURSIVE scan_divisors(_, _, _, _, _, _, _)
scan_divisors(divisors, k, frame_count, max_cols, max_rows, width, height) ==
    IF k > Len(divisors) THEN NoSplit
    ELSE IF divisors[k] = frame_count
    THEN scan_divisors(divisors, k + 1, frame_count, max_cols, max_rows, width, height)
    ELSE LET frames_per_file == divisors[k]
             cols == scan_cols(frames_per_file, 1, Min(frames_per_file, max_cols),
                               max_rows, width, height)
         IN  IF cols # 0
             THEN SplitPlan(frame_count \div frames_per_file, cols, frames_per_file \div cols)
             ELSE scan_divisors(divisors, k + 1, frame_count, max_cols, max_rows,
                                width, height)

\* find_split_layout with `or` for `and` in the test of the natural layout (line 72)
find_split_layout_or(frame_count, width, height) ==
    LET max_cols == MAX_DIMENSION \div width
        max_rows == MAX_DIMENSION \div height
        full_cols == get_grid_layout(frame_count)
        full_rows == ceil_div(frame_count, full_cols)
    IN  IF max_cols < 1 \/ max_rows < 1 THEN NoSplit
        ELSE IF full_cols * width <= MAX_DIMENSION \/ full_rows * height <= MAX_DIMENSION
        THEN NoSplit
        ELSE scan_divisors(get_divisors(frame_count), 1, frame_count, max_cols, max_rows,
                           width, height)

find_split_layout(frame_count, width, height) ==
    LET max_cols == MAX_DIMENSION \div width
        max_rows == MAX_DIMENSION \div height
        full_cols == get_grid_layout(frame_count)
        full_rows == ceil_div(frame_count, full_cols)
    IN  IF max_cols < 1 \/ max_rows < 1 THEN NoSplit
        ELSE IF full_cols * width <= MAX_DIMENSION /\ full_rows * height <= MAX_DIMENSION
        THEN NoSplit
        ELSE scan_divisors(get_divisors(frame_count), 1, frame_count, max_cols, max_rows,
                           width, height)

----------------------------------------------------------------------------
(* reduce_rotation.py: frame selection *)

\* symmetric_indices mirroring about n instead of n - 1
symmetric_indices_off_by_one(n, skip) ==
    LET half == n \div 2
        first_half == range(0, half, skip)
        second_half == reversed([k \in 1..Len(first_half) |-> n - first_half[k]])
    IN  sorted(first_half \o second_half)

symmetric_indices(n, skip) ==
    LET half == n \div 2
        first_half == range(0, half, skip)
        second_half == reversed([k \in 1..Len(first_half) |-> n - 1 - first_half[k]])
    IN  sorted(first_half \o second_half)

\* linear selection that stops one frame early
linear_indices_short(total_frames, skip) == range(0, total_frames - 1, skip)

\* line 107
linear_indices(total_frames, skip) == range(0, total_frames, skip)

\* rotation_loop that puts each direction's indices before those already there
RECURSIVE rotation_loop_prepending(_, _, _, _, _)
rotation_loop_prepending(r, rots, animations_per_rotation, keep, indices) ==
    IF r >= rots THEN indices
    ELSE rotation_loop_prepending(r + 1, rots, animations_per_rotation, keep,
            [k \in 1..Len(keep) |-> r * animations_per_rotation + keep[k]] \o indices)

\* lines 117-124: the loop over rotations r..rots-1, appending to indices
RECURSIVE rotation_loop(_, _, _, _, _)
rotation_loop(r, rots, animations_per_rotation, keep, indices) ==
    IF r >= rots THEN indices
    ELSE rotation_loop(r + 1, rots, animations_per_rotation, keep,
            indices \o [k \in 1..Len(keep) |-> r * animations_per_rotation + keep[k]])

\* per-direction selection that ignores `symmetric`
rotation_indices_never_symmetric(total_frames, skip, animations_per_rotation, symmetric) ==
    LET rots == total_frames \div animations_per_rotation
        keep == range(0, animations_per_rotation, skip)
    IN  rotation_loop(0, rots, animations_per_rotation, keep, <<>>)

\* lines 115-125: skip_type "rotation", animations_per_rotation given
rotation_indices(total_frames, skip, animations_per_rotation, symmetric) ==
    LET rots == total_frames \div animations_per_rotation
        keep == IF symmetric
                THEN symmetric_indices(animations_per_rotation, skip)
                ELSE range(0, animations_per_rotation, skip)
    IN  rotation_loop(0, rots, animations_per_rotation, keep, <<>>)

\* lines 133-136: the loop over keep_rots, appending to indices
RECURSIVE animation_loop(_, _, _, _)
animation_loop(k, keep_rots, anims_per_rot, indices) ==
    IF k > Len(keep_rots) THEN indices
    ELSE animation_loop(k + 1, keep_rots, anims_per_rot,
            indices \o [a \in 1..anims_per_rot |-> keep_rots[k] * anims_per_rot + (a - 1)])

\* skip_type "animation" with the groups to keep counted up to anims_per_rot
animation_indices_wrong_count(total_frames, skip, rotations) ==
    LET anims_per_rot == total_frames \div rotations
        keep_rots == range(0, anims_per_rot, skip)
    IN  animation_loop(1, keep_rots, anims_per_rot, <<>>)

\* lines 130-137: skip_type "animation", rotations given
animation_indices(total_frames, skip, rotations) ==
    LET anims_per_rot == total_frames \div rotations
        keep_rots == range(0, rotations, skip)
    IN  animation_loop(1, keep_rots, anims_per_rot, <<>>)

\* What compute_selected_indices gives when it raises ValueError (no index is negative)
ValueError == <<None>>

\* A list of indices, or ValueError when the call raises
compute_selected_indices(total_frames, skip, skip_type, rotations, animations_per_rotation, symmetric) ==
    IF skip_type = "linear"
    THEN IF symmetric THEN symmetric_indices(total_frames, skip)
         ELSE linear_indices(total_frames, skip)
    ELSE IF skip_type = "rotation"
    THEN IF animations_per_rotation = None THEN ValueError
         ELSE rotation_indices(total_frames, skip, animations_per_rotation, symmetric)
    ELSE IF skip_type = "animation"
    THEN IF rotations = None THEN ValueError
         ELSE animation_indices(total_frames, skip, rotations)
    ELSE ValueError

----------------------------------------------------------------------------
(* auto_merge_sprites.py: constants, layout and split planner *)

MAX_DIMENSION_merge == 8192

FRAME_COLUMN_MAPPING_merge ==
    (1 :> 1) @@ (2 :> 2) @@ (3 :> 3) @@ (4 :> 2) @@ (5 :> 3) @@ (6 :> 3) @@
    (7 :> 4) @@ (8 :> 4) @@ (9 :> 3) @@ (10 :> 5) @@ (12 :> 4) @@ (16 :> 4) @@
    (20 :> 5) @@ (24 :> 6) @@ (32 :> 8) @@ (64 :> 8) @@ (128 :> 8) @@
    (256 :> 16) @@ (512 :> 16) @@ (1024 :> 32)

get_columns(frame_count) ==
    IF frame_count \in DOMAIN FRAME_COLUMN_MAPPING_merge
    THEN FRAME_COLUMN_MAPPING_merge[frame_count]
    ELSE ceil_sqrt(frame_count)

RECURSIVE divisors_loop_merge(_, _, _)
divisors_loop_merge(n, i, divisors) ==
    IF i * i <= n
    THEN divisors_loop_merge(n, i + 1,
            IF n % i = 0
            THEN IF i # n \div i
                 THEN Append(Append(divisors, i), n \div i)
                 ELSE Append(divisors, i)
            ELSE divisors)
    ELSE divisors

get_divisors_merge(n) == sorted_reverse(divisors_loop_merge(n, 1, <<>>))

\* lines 112-115: single row, the first divisor (descending) that is <= max_cols
RECURSIVE scan_one_row(_, _, _, _)
scan_one_row(divisors, k, frame_count, max_cols) ==
    IF k > Len(divisors) THEN SplitPlan(1, 1, 1)
    ELSE IF divisors[k] <= max_cols
    THEN SplitPlan(frame_count \div divisors[k], divisors[k], 1)
    ELSE scan_one_row(divisors, k + 1, frame_count, max_cols)

\* lines 130-138: fixed row length, cols = row_length
RECURSIVE scan_row_length(_, _, _, _, _)
scan_row_length(divisors, k, frame_count, cols, height) ==
    IF k > Len(divisors) THEN Raised("Cannot split with row_length")
    ELSE IF divisors[k] = frame_count \/ divisors[k] % cols # 0
    THEN scan_row_length(divisors, k + 1, frame_count, cols, height)
    ELSE IF (divisors[k] \div cols) * height <= MAX_DIMENSION_merge
    THEN SplitPlan(frame_count \div divisors[k], cols, divisors[k] \div cols)
    ELSE scan_row_length(divisors, k + 1, frame_count, cols, height)

\* lines 143-151
RECURSIVE scan_cols_merge(_, _, _, _, _, _)
scan_cols_merge(frames_per_file, cols, limit, max_rows, width, height) ==
    IF cols > limit THEN 0
    ELSE IF frames_per_file % cols # 0
    THEN scan_cols_merge(frames_per_file, cols + 1, limit, max_rows, width, height)
    ELSE IF /\ frames_per_file \div cols <= max_rows
            /\ cols * width <= MAX_DIMENSION_merge
            /\ (frames_per_file \div cols) * height <= MAX_DIMENSION_merge
    THEN cols
    ELSE scan_cols_merge(frames_per_file, cols + 1, limit, max_rows, width, height)

\* lines 140-152
RECURSIVE scan_divisors_merge(_, _, _, _, _, _, _)
scan_divisors_merge(divisors, k, frame_count, max_cols, max_rows, width, height) ==
    IF k > Len(divisors) THEN Raised("Cannot split")
    ELSE IF divisors[k] = frame_count
    THEN scan_divisors_merge(divisors, k + 1, frame_count, max_cols, max_rows, width, height)
    ELSE LET frames_per_file == divisors[k]
             cols == scan_cols_merge(frames_per_file, 1, Min(frames_per_file, max_cols),
                                     max_rows, width, height)
         IN  IF cols # 0
             THEN SplitPlan(frame_count \div frames_per_file, cols, frames_per_file \div cols)
             ELSE scan_divisors_merge(divisors, k + 1, frame_count, max_cols, max_rows,
                                      width, height)

find_split_layout_merge(frame_count, width, height, is_one_row, row_length) ==
    LET max_cols == MAX_DIMENSION_merge \div width
        max_rows == MAX_DIMENSION_merge \div height
    IN  IF max_cols < 1 \/ max_rows < 1 THEN Raised("Frame size exceeds max dimension")
        ELSE IF row_length = None /\ is_one_row
        THEN IF frame_count <= max_cols THEN NoSplit
             ELSE scan_one_row(get_divisors_merge(frame_count), 1, frame_count, max_cols)
        ELSE LET full_cols == IF row_length # None THEN row_length
                              ELSE get_columns(frame_count)
                 full_rows == ceil_div(frame_count, full_cols)
             IN  IF /\ full_cols * width <= MAX_DIMENSION_merge
                    /\ full_rows * height <= MAX_DIMENSION_merge
                 THEN NoSplit
                 ELSE IF row_length # None
                 THEN IF row_length * width > MAX_DIMENSION_merge
                      THEN Raised("row_length * frame width exceeds max dimension")
                      ELSE scan_row_length(get_divisors_merge(frame_count), 1, frame_count,
                                           row_length, height)
                 ELSE scan_divisors_merge(get_divisors_merge(frame_count), 1, frame_count,
                                          max_cols, max_rows, width, height)

----------------------------------------------------------------------------
(* Images.  An image is its size and its pixel content, held as a set of parts:  *)
(* the rectangle of the image at (x, y), w by h pixels, shows the pixels of the  *)
(* input file `file` from (sx, sy) on.  Pixels under no part are transparent.    *)
(* This is exact for what the codec does here: crop, and paste onto a fresh     *)
(* canvas at cells that do not overlap.                                          *)

Max(a, b) == IF a >= b THEN a ELSE b

\* The image decoded from input file `file`, width by height pixels
SourceImage(file, width, height) ==
    [width |-> width, height |-> height,
     parts |-> {[x |-> 0, y |-> 0, w |-> width, h |-> height,
                 file |-> file, sx |-> 0, sy |-> 0]}]

\* Image.new("RGBA", (width, height), (0, 0, 0, 0))
new_image(width, height) == [width |-> width, height |-> height, parts |-> {}]

\* img.crop((x0, y0, x1, y1)): the box may reach beyond the image, where it is transparent
crop(img, x0, y0, x1, y1) ==
    [width |-> x1 - x0, height |-> y1 - y0,
     parts |-> {[x |-> Max(p.x, x0) - x0,
                 y |-> Max(p.y, y0) - y0,
                 w |-> Min(p.x + p.w, x1) - Max(p.x, x0),
                 h |-> Min(p.y + p.h, y1) - Max(p.y, y0),
                 file |-> p.file,
                 sx |-> p.sx + (Max(p.x, x0) - p.x),
                 sy |-> p.sy + (Max(p.y, y0) - p.y)] :
                p \in {q \in img.parts :
                          /\ Max(q.x, x0) < Min(q.x + q.w, x1)
                          /\ Max(q.y, y0) < Min(q.y + q.h, y1)}}]

\* canvas.paste(frame, (dx, dy)): the box of the frame is overwritten, clipped to the canvas
paste(canvas, frame, dx, dy) ==
    LET box == crop(frame, 0, 0, Min(frame.width, canvas.width - dx),
                    Min(frame.height, canvas.height - dy))
        kept == {q \in canvas.parts :
                    ~(/\ Max(q.x, dx) < Min(q.x + q.w, dx + frame.width)
                      /\ Max(q.y, dy) < Min(q.y + q.h, dy + frame.height))}
    IN  [canvas EXCEPT !.parts =
            kept \cup {[p EXCEPT !.x = p.x + dx, !.y = p.y + dy] : p \in box.parts}]

\* for i, frame in enumerate(frames): sheet.paste(frame, (i % cols * fw, i // cols * fh)),
\* from the k-th frame on
RECURSIVE paste_loop(_, _, _, _, _, _)
paste_loop(sheet, frames, k, cols, fw, fh) ==
    IF k > Len(frames) THEN sheet
    ELSE paste_loop(paste(sheet, frames[k], ((k - 1) % cols) * fw, ((k - 1) \div cols) * fh),
                    frames, k + 1, cols, fw, fh)

\* A fresh cols x rows canvas of fw x fh cells with the frames pasted row-major
compose(frames, cols, rows, fw, fh) ==
    paste_loop(new_image(cols * fw, rows * fh), frames, 1, cols, fw, fh)

----------------------------------------------------------------------------
(* reduce_rotation.py: parse_spritesheet and reduce_single *)

\* frame_size when --size is not given; keep_indices when --indices is not given
NoSize == <<None, None>>
NoIndices == <<None>>

ParseError(msg) ==
    [kind |-> "error", cols |-> 0, rows |-> 0, fw |-> 0, fh |-> 0, total_frames |-> 0,
     msg |-> msg]
Parsed(cols, rows, fw, fh, total_frames) ==
    [kind |-> "ok", cols |-> cols, rows |-> rows, fw |-> fw, fh |-> fh,
     total_frames |-> total_frames, msg |-> ""]

\* lines 166-179: the first test_cols in 1..total_frames that fits, else the expected layout
deduce_layout(img_width, img_height, total_frames, expected) ==
    LET fits(test_cols) ==
            /\ total_frames % test_cols = 0 \/ test_cols >= total_frames
            /\ img_width % test_cols = 0
            /\ img_height % ceil_div(total_frames, test_cols) = 0
            /\ test_cols * ceil_div(total_frames, test_cols) >= total_frames
        found == {c \in 1..total_frames : fits(c)}
    IN  IF found # {}
        THEN LET test_cols == CHOOSE c \in found : \A d \in found : c <= d
                 test_rows == ceil_div(total_frames, test_cols)
             IN  Parsed(test_cols, test_rows, img_width \div test_cols,
                        img_height \div test_rows, total_frames)
        ELSE expected

\* the list of line 181 in ascending order
GuessCounts_ascending == <<4, 8, 12, 16, 24, 32, 64>>

\* lines 181-190: the first count of the list whose natural grid divides the image
GuessCounts == <<64, 32, 24, 16, 12, 8, 4>>

RECURSIVE guess_layout(_, _, _)
guess_layout(img_width, img_height, k) ==
    IF k > Len(GuessCounts) THEN ParseError("Could not determine frame count")
    ELSE LET count == GuessCounts[k]
             c == get_grid_layout(count)
             r == ceil_div(count, c)
         IN  IF img_width % c = 0 /\ img_height % r = 0
             THEN Parsed(c, r, img_width \div c, img_height \div r, count)
             ELSE guess_layout(img_width, img_height, k + 1)

\* lines 144-190: cols, rows, fw, fh and total_frames from the image size and the hints
parse_layout(img_width, img_height, frame_count, frame_size) ==
    IF frame_size # NoSize
    THEN LET fw == frame_size[1]
             fh == frame_size[2]
         IN  Parsed(img_width \div fw, img_height \div fh, fw, fh,
                    (img_width \div fw) * (img_height \div fh))
    ELSE IF frame_count # None /\ frame_count # 0
    THEN LET expected_cols == get_grid_layout(frame_count)
             expected_rows == ceil_div(frame_count, expected_cols)
             fw_expected == img_width \div expected_cols
             fh_expected == img_height \div expected_rows
             expected == Parsed(expected_cols, expected_rows, fw_expected, fh_expected,
                                frame_count)
         IN  IF /\ img_width = expected_cols * fw_expected
                /\ img_height = expected_rows * fh_expected
             THEN expected
             ELSE deduce_layout(img_width, img_height, frame_count, expected)
    ELSE guess_layout(img_width, img_height, 1)

\* parse_spritesheet with column and row of a cell exchanged
extract_frames_transposed(img, cols, fw, fh, total_frames) ==
    LET inside == SelectSeq([k \in 1..total_frames |-> k],
                            LAMBDA k : /\ ((k - 1) \div cols) * fw < img.width
                                       /\ ((k - 1) % cols) * fh < img.height)
        cell(k) == crop(img, ((k - 1) \div cols) * fw, ((k - 1) % cols) * fh,
                        ((k - 1) \div cols) * fw + fw, ((k - 1) % cols) * fh + fh)
    IN  [i \in 1..Len(inside) |-> cell(inside[i])]

\* lines 191-196: frame i is the cell (i % cols, i // cols), kept if it starts inside the image
extract_frames(img, cols, fw, fh, total_frames) ==
    LET inside == SelectSeq([k \in 1..total_frames |-> k],
                            LAMBDA k : /\ ((k - 1) % cols) * fw < img.width
                                       /\ ((k - 1) \div cols) * fh < img.height)
        cell(k) == crop(img, ((k - 1) % cols) * fw, ((k - 1) \div cols) * fh,
                        ((k - 1) % cols) * fw + fw, ((k - 1) \div cols) * fh + fh)
    IN  [i \in 1..Len(inside) |-> cell(inside[i])]

ReduceError(msg) ==
    [kind |-> "error", msg |-> msg, img |-> new_image(0, 0), fw |-> 0, fh |-> 0,
     new_count |-> 0, layout |-> ParseError(msg), selected_indices |-> <<>>,
     new_cols |-> 0, new_rows |-> 0, warnings |-> <<>>]

\* reduce_single with an explicit index beyond the last frame clamped to it, not dropped
select_indices_clamped(a, total_frames, n_frames) ==
    IF a.keep_indices # NoIndices
    THEN [k \in DOMAIN a.keep_indices |->
             IF a.keep_indices[k] < 0 THEN 0 ELSE Min(a.keep_indices[k], n_frames - 1)]
    ELSE LET computed == compute_selected_indices(total_frames, a.skip, a.skip_type,
                             a.rotations, a.animations_per_rotation, a.symmetric)
         IN  IF computed = ValueError THEN ValueError
             ELSE SelectSeq(computed, LAMBDA i : i < n_frames)

\* lines 212-218: the indices selected, restricted to the frames that exist
select_indices(a, total_frames, n_frames) ==
    IF a.keep_indices # NoIndices
    THEN SelectSeq(a.keep_indices, LAMBDA i : 0 <= i /\ i < n_frames)
    ELSE LET computed == compute_selected_indices(total_frames, a.skip, a.skip_type,
                             a.rotations, a.animations_per_rotation, a.symmetric)
         IN  IF computed = ValueError THEN ValueError
             ELSE SelectSeq(computed, LAMBDA i : i < n_frames)

\* lines 212-218: what is printed for the indices the filter drops; the comprehensions
\* print nothing
dropped_warnings(a, n_frames) == <<>>

\* lines 227-241: the columns of the output sheet; 0 stands for the TypeError of
\* range(0, animations_per_rotation, None) when --indices is given with skip type rotation
choose_new_cols(a, total_frames, new_count) ==
    IF a.skip_type = "rotation" /\ a.animations_per_rotation # None
    THEN IF a.skip = None THEN 0
         ELSE IF a.symmetric THEN Len(symmetric_indices(a.animations_per_rotation, a.skip))
         ELSE Len(range(0, a.animations_per_rotation, a.skip))
    ELSE IF a.skip_type = "animation" /\ a.rotations # None
    THEN total_frames \div a.rotations
    ELSE get_grid_layout(new_count)

\* lines 205-251 of reduce_single on the decoded image `img`, before the save:
\* the composed sheet with fw, fh and the new count, or the error raised
reduce_single(img, a) ==
    IF a.skip = None /\ a.keep_indices = NoIndices
    THEN ReduceError("Must specify either skip or keep_indices")
    ELSE LET layout == parse_layout(img.width, img.height, a.frame_count, a.frame_size)
         IN  IF layout.kind = "error" THEN ReduceError(layout.msg)
             ELSE
             LET frames == extract_frames(img, layout.cols, layout.fw, layout.fh,
                                          layout.total_frames)
                 selected_indices == select_indices(a, layout.total_frames, Len(frames))
             IN  IF selected_indices = ValueError
                 THEN ReduceError("skip_type requires its parameter")
                 ELSE IF selected_indices = <<>> THEN ReduceError("No frames selected")
                 ELSE
                 LET selected_frames ==
                         [k \in 1..Len(selected_indices) |-> frames[selected_indices[k] + 1]]
                     new_count == Len(selected_frames)
                     new_cols == choose_new_cols(a, layout.total_frames, new_count)
                 IN  IF new_cols = 0 THEN ReduceError("TypeError")
                     ELSE
                     LET new_rows == ceil_div(new_count, new_cols)
                     IN  [kind |-> "ok", msg |-> "",
                          img |-> compose(selected_frames, new_cols, new_rows,
                                          layout.fw, layout.fh),
                          fw |-> layout.fw, fh |-> layout.fh, new_count |-> new_count,
                          layout |-> layout, selected_indices |-> selected_indices,
                          new_cols |-> new_cols, new_rows |-> new_rows,
                          warnings |-> dropped_warnings(a, Len(frames))]

----------------------------------------------------------------------------
(* reduce_rotation.py: regroup_files *)

\* A path is directory, file name without ".png", and the number of the "-<n>"
\* suffix that regroup and the merge composer add (0: no suffix)
Path(dir, stem, part) == [dir |-> dir, stem |-> stem, part |-> part]

RegroupError(msg) ==
    [kind |-> "error", msg |-> msg, writes |-> <<>>, plan |-> NoSplit,
     total_frames |-> 0, fw |-> 0, fh |-> 0, all_frames |-> <<>>]

\* file_frames with the columns the layout table gives for the file's frame count
file_frames_table_cols(result, fw, fh) ==
    LET cols == get_grid_layout(result.count)
    IN  [k \in 1..result.count |->
            crop(result.img, ((k - 1) % cols) * fw, ((k - 1) \div cols) * fh,
                 (((k - 1) % cols) + 1) * fw, (((k - 1) \div cols) + 1) * fh)]

\* lines 290-297: the frames of one file, cut with the columns its own width gives
file_frames(result, fw, fh) ==
    LET cols == result.img.width \div fw
    IN  [k \in 1..result.count |->
            crop(result.img, ((k - 1) % cols) * fw, ((k - 1) \div cols) * fh,
                 (((k - 1) % cols) + 1) * fw, (((k - 1) \div cols) + 1) * fh)]

\* lines 287-299: all_frames after the files from the k-th on are added
RECURSIVE all_frames_loop(_, _, _, _, _)
all_frames_loop(file_results, k, fw, fh, all_frames) ==
    IF k > Len(file_results) THEN all_frames
    ELSE all_frames_loop(file_results, k + 1, fw, fh,
                         all_frames \o file_frames(file_results[k], fw, fh))

\* regroup_files with each slice of the split path one frame short
regroup_writes_short_slice(all_frames, split_result, fw, fh, output_prefix, output_dir, frames_per_rotation) ==
    LET total_frames == Len(all_frames)
    IN  IF split_result.kind = "none"
        THEN LET cols == IF frames_per_rotation # None /\ frames_per_rotation # 0
                         THEN frames_per_rotation
                         ELSE get_grid_layout(total_frames)
                 rows == ceil_div(total_frames, cols)
             IN  <<[path |-> Path(output_dir, output_prefix, 0),
                    sheet |-> compose(all_frames, cols, rows, fw, fh)]>>
        ELSE LET cols == split_result.cols
                 rows == split_result.rows
                 frames_per_file == cols * rows
             IN  [i \in 1..split_result.num_files |->
                    [path |-> Path(output_dir, output_prefix, i),
                     sheet |-> compose(SubSeq(all_frames, (i - 1) * frames_per_file + 1,
                                              Min(i * frames_per_file - 1, total_frames)),
                                       cols, rows, fw, fh)]]

\* lines 305-321: one sheet; 323-338: num_files sheets of the plan
regroup_writes(all_frames, split_result, fw, fh, output_prefix, output_dir, frames_per_rotation) ==
    LET total_frames == Len(all_frames)
    IN  IF split_result.kind = "none"
        THEN LET cols == IF frames_per_rotation # None /\ frames_per_rotation # 0
                         THEN frames_per_rotation
                         ELSE get_grid_layout(total_frames)
                 rows == ceil_div(total_frames, cols)
             IN  <<[path |-> Path(output_dir, output_prefix, 0),
                    sheet |-> compose(all_frames, cols, rows, fw, fh)]>>
        ELSE LET cols == split_result.cols
                 rows == split_result.rows
                 frames_per_file == cols * rows
             IN  [i \in 1..split_result.num_files |->
                    [path |-> Path(output_dir, output_prefix, i),
                     sheet |-> compose(SubSeq(all_frames, (i - 1) * frames_per_file + 1,
                                              Min(i * frames_per_file, total_frames)),
                                       cols, rows, fw, fh)]]

\* regroup_files without the frame size check of lines 283-286
regroup_files_unchecked(file_results, output_prefix, output_dir, frames_per_rotation) ==
    IF file_results = <<>>
    THEN [RegroupError("") EXCEPT !.kind = "ok"]
    ELSE LET fw == file_results[1].fw
             fh == file_results[1].fh
             all_frames == all_frames_loop(file_results, 1, fw, fh, <<>>)
             total_frames == Len(all_frames)
             split_result == find_split_layout(total_frames, fw, fh)
         IN  [kind |-> "ok", msg |-> "",
              writes |-> regroup_writes(all_frames, split_result, fw, fh,
                                        output_prefix, output_dir,
                                        frames_per_rotation),
              plan |-> split_result, total_frames |-> total_frames,
              fw |-> fw, fh |-> fh, all_frames |-> all_frames]

\* The sheets regroup_files writes, with the plan it made, or the error it raises
regroup_files(file_results, output_prefix, output_dir, frames_per_rotation) ==
    IF file_results = <<>>
    THEN [RegroupError("") EXCEPT !.kind = "ok"]
    ELSE LET fw == file_results[1].fw
             fh == file_results[1].fh
         IN  IF \E k \in 2..Len(file_results) :
                    file_results[k].fw # fw \/ file_results[k].fh # fh
             THEN RegroupError("Frame size mismatch in regroup")
             ELSE LET all_frames == all_frames_loop(file_results, 1, fw, fh, <<>>)
                      total_frames == Len(all_frames)
                      split_result == find_split_layout(total_frames, fw, fh)
                  IN  [kind |-> "ok", msg |-> "",
                       writes |-> regroup_writes(all_frames, split_result, fw, fh,
                                                 output_prefix, output_dir,
                                                 frames_per_rotation),
                       plan |-> split_result, total_frames |-> total_frames,
                       fw |-> fw, fh |-> fh, all_frames |-> all_frames]

----------------------------------------------------------------------------
(* auto_merge_sprites.py: process_component *)

\* lines 154-160
parse_frame_size(frame_size, source_width, source_height) ==
    IF frame_size = NoSize THEN <<source_width, source_height>> ELSE frame_size

MergeOutcome(kind, msg, writes, split_result, width, height) ==
    [kind |-> kind, msg |-> msg, writes |-> writes, plan |-> split_result,
     width |-> width, height |-> height]

\* component_writes with is_one_row taking precedence over row_length
component_writes_one_row_first(frames, split_result, width, height, is_one_row, row_length, suffix) ==
    LET frame_count == Len(frames)
    IN  IF split_result.kind = "none"
        THEN LET cols == IF is_one_row THEN frame_count
                         ELSE IF row_length # None THEN row_length
                         ELSE get_columns(frame_count)
                 rows == IF is_one_row THEN 1 ELSE ceil_div(frame_count, cols)
             IN  <<[path |-> Path("destination", suffix, 0),
                    sheet |-> compose(frames, cols, rows, width, height)]>>
        ELSE LET cols == split_result.cols
                 rows == split_result.rows
                 frames_per_file == cols * rows
             IN  [i \in 1..split_result.num_files |->
                    [path |-> Path("destination", suffix, i),
                     sheet |-> compose(SubSeq(frames, (i - 1) * frames_per_file + 1,
                                              Min(i * frames_per_file, frame_count)),
                                       cols, rows, width, height)]]

\* lines 193-235: the sheets written for the frames, given what find_split_layout returned
component_writes(frames, split_result, width, height, is_one_row, row_length, suffix) ==
    LET frame_count == Len(frames)
    IN  IF split_result.kind = "none"
        THEN LET cols == IF row_length # None THEN row_length
                         ELSE IF is_one_row THEN frame_count
                         ELSE get_columns(frame_count)
                 rows == IF row_length = None /\ is_one_row THEN 1
                         ELSE ceil_div(frame_count, cols)
             IN  <<[path |-> Path("destination", suffix, 0),
                    sheet |-> compose(frames, cols, rows, width, height)]>>
        ELSE LET cols == split_result.cols
                 rows == split_result.rows
                 frames_per_file == cols * rows
             IN  [i \in 1..split_result.num_files |->
                    [path |-> Path("destination", suffix, i),
                     sheet |-> compose(SubSeq(frames, (i - 1) * frames_per_file + 1,
                                              Min(i * frames_per_file, frame_count)),
                                       cols, rows, width, height)]]

\* lines 162-235: one component whose source directory holds frame_count files of
\* source_width x source_height (sizes_match: get_image_size finds them all alike)
process_component(enabled, suffix, frame_count, source_width, source_height, sizes_match, a) ==
    IF ~enabled THEN MergeOutcome("skipped", "", <<>>, NoSplit, 0, 0)
    ELSE IF frame_count = 0 THEN MergeOutcome("skipped", "No files found", <<>>, NoSplit, 0, 0)
    ELSE IF ~sizes_match THEN MergeOutcome("error", "Image size mismatch", <<>>, NoSplit, 0, 0)
    ELSE LET target == parse_frame_size(a.frame_size, source_width, source_height)
             width == target[1]
             height == target[2]
             frames == [i \in 1..frame_count |-> SourceImage(i, width, height)]
             split_result == find_split_layout_merge(frame_count, width, height,
                                                     a.is_one_row, a.row_length)
         IN  IF split_result.kind = "error"
             THEN MergeOutcome("error", split_result.msg, <<>>, split_result, width, height)
             ELSE MergeOutcome("ok", "",
                               component_writes(frames, split_result, width, height,
                                                a.is_one_row, a.row_length, suffix),
                               split_result, width, height)

----------------------------------------------------------------------------
(* The pure functions, each applied to arguments drawn from the bounded sets *)

NoJob == [op |-> "none"]

FrameCounts == 1..MaxFrameCount
LayoutCounts == FrameCounts \cup DOMAIN FRAME_COLUMN_MAPPING \cup DOMAIN FRAME_COLUMN_MAPPING_merge
Skips == 1..MaxSkip
Groups == 1..MaxGroup
RowLengths == 1..MaxRowLength

\* Widths and heights of a sheet given without --count and --size: odd ones, and ones
\* that 2, 3, 4, 6 or 8 divide or fail to divide
ImageSides == {1001, 1002, 1006, 1100, 1500, 2400, 3300, 4096}

FnCalls ==
    {[fn |-> "get_divisors", n |-> n] : n \in FrameCounts}
    \cup {[fn |-> "get_divisors_merge", n |-> n] : n \in FrameCounts}
    \cup {[fn |-> "get_grid_layout", frame_count |-> n] : n \in LayoutCounts}
    \cup {[fn |-> "get_columns", frame_count |-> n] : n \in LayoutCounts}
    \cup {[fn |-> "symmetric_indices", n |-> n, skip |-> k] : n \in FrameCounts, k \in Skips}
    \cup {[fn |-> "compute_selected_indices", total_frames |-> n, skip |-> k,
           skip_type |-> "linear", rotations |-> None, animations_per_rotation |-> None,
           symmetric |-> b] : n \in FrameCounts, k \in Skips, b \in BOOLEAN}
    \cup {[fn |-> "compute_selected_indices", total_frames |-> n, skip |-> k,
           skip_type |-> "rotation", rotations |-> None, animations_per_rotation |-> a,
           symmetric |-> b] :
              n \in FrameCounts, k \in Skips, a \in Groups \cup {None}, b \in BOOLEAN}
    \cup {[fn |-> "compute_selected_indices", total_frames |-> n, skip |-> k,
           skip_type |-> "animation", rotations |-> r, animations_per_rotation |-> None,
           symmetric |-> FALSE] : n \in FrameCounts, k \in Skips, r \in Groups \cup {None}}
    \cup {[fn |-> "find_split_layout", frame_count |-> n, width |-> w, height |-> h] :
              n \in FrameCounts, w \in Sizes, h \in Sizes}
    \cup {[fn |-> "find_split_layout_merge", frame_count |-> n, width |-> w, height |-> h,
           is_one_row |-> o, row_length |-> l] :
              n \in FrameCounts, w \in Sizes, h \in Sizes, o \in BOOLEAN,
              l \in RowLengths \cup {None}}
    \cup {[fn |-> "parse_spritesheet", img_width |-> w, img_height |-> h,
           frame_count |-> None, frame_size |-> NoSize] :
              w \in ImageSides, h \in ImageSides}

Idle ==
    /\ prog = "none" /\ args = <<>> /\ idx = 0 /\ results = <<>>
    /\ written = <<>> /\ plan = NoSplit /\ storage = <<>> /\ job = NoJob /\ exit = None

FnInit ==
    /\ call \in FnCalls
    /\ ret = "not returned"
    /\ pc = "call"
    /\ Idle

Return(value) ==
    /\ ret' = value
    /\ pc' = "returned"
    /\ UNCHANGED <<call, prog, args, idx, results, written, plan, storage, job, exit>>

Call_get_divisors ==
    /\ pc = "call" /\ call.fn = "get_divisors"
    /\ Return(get_divisors(call.n))

Call_get_divisors_merge ==
    /\ pc = "call" /\ call.fn = "get_divisors_merge"
    /\ Return(get_divisors_merge(call.n))

\* reduce_rotation.py lines 68-69: columns from get_grid_layout, rows = ceil(count / columns)
Call_get_grid_layout ==
    /\ pc = "call" /\ call.fn = "get_grid_layout"
    /\ LET cols == get_grid_layout(call.frame_count)
       IN  Return([cols |-> cols, rows |-> ceil_div(call.frame_count, cols)])

\* auto_merge_sprites.py lines 202-203: columns from get_columns, rows = ceil(count / columns)
Call_get_columns ==
    /\ pc = "call" /\ call.fn = "get_columns"
    /\ LET cols == get_columns(call.frame_count)
       IN  Return([cols |-> cols, rows |-> ceil_div(call.frame_count, cols)])

Call_symmetric_indices ==
    /\ pc = "call" /\ call.fn = "symmetric_indices"
    /\ Return(symmetric_indices(call.n, call.skip))

Call_compute_selected_indices ==
    /\ pc = "call" /\ call.fn = "compute_selected_indices"
    /\ Return(compute_selected_indices(call.total_frames, call.skip, call.skip_type,
                                       call.rotations, call.animations_per_rotation,
                                       call.symmetric))

Call_find_split_layout ==
    /\ pc = "call" /\ call.fn = "find_split_layout"
    /\ Return(find_split_layout(call.frame_count, call.width, call.height))

Call_find_split_layout_merge ==
    /\ pc = "call" /\ call.fn = "find_split_layout_merge"
    /\ Return(find_split_layout_merge(call.frame_count, call.width, call.height,
                                      call.is_one_row, call.row_length))

\* lines 144-190 of parse_spritesheet: the layout, or the error raised
Call_parse_spritesheet ==
    /\ pc = "call" /\ call.fn = "parse_spritesheet"
    /\ Return(parse_layout(call.img_width, call.img_height, call.frame_count,
                           call.frame_size))

FnNext ==
    \/ Call_get_divisors
    \/ Call_get_divisors_merge
    \/ Call_get_grid_layout
    \/ Call_get_columns
    \/ Call_symmetric_indices
    \/ Call_compute_selected_indices
    \/ Call_find_split_layout
    \/ Call_find_split_layout_merge
    \/ Call_parse_spritesheet

SpecFn == FnInit /\ [][FnNext]_vars

----------------------------------------------------------------------------
(* The two tools.  auto_merge_sprites.main composes the four components in turn; *)
(* reduce_rotation.main reduces its inputs and, with --regroup, regroups them.   *)

\* auto_merge_sprites.py lines 273-298: the output name of each component
Components == <<"prefix", "prefix-shadow", "prefix-water-reflection", "prefix-glow">>

MergeFrameSizes == {NoSize, <<4096, 2048>>}
MergeRowLengths == {None, 2, 3}

\* What a component's source directory can hold: the component may be disabled, the
\* directory empty, the files of different sizes, or frame_count files of one size
MergeCells == {<<2048, 2048>>, <<4096, 2048>>, <<2048, 4096>>, <<9000, 2048>>}
MergeSources ==
    {[enabled |-> FALSE, frame_count |-> 1, size |-> <<2048, 2048>>, sizes_match |-> TRUE],
     [enabled |-> TRUE, frame_count |-> 0, size |-> <<2048, 2048>>, sizes_match |-> TRUE],
     [enabled |-> TRUE, frame_count |-> 2, size |-> <<2048, 2048>>, sizes_match |-> FALSE]}
    \cup {[enabled |-> TRUE, frame_count |-> n, size |-> c, sizes_match |-> TRUE] :
             n \in 1..MaxMergeFrames, c \in MergeCells}

MergeInit ==
    /\ prog = "merge"
    /\ args \in [is_one_row : BOOLEAN,
                 row_length : MergeRowLengths,
                 frame_size : MergeFrameSizes]
    /\ pc = "components"
    /\ idx = 1
    /\ results = <<>> /\ written = <<>> /\ plan = NoSplit /\ storage = <<>>
    /\ job = NoJob /\ exit = None
    /\ call = NoJob /\ ret = None

\* auto_merge_sprites.py lines 300-304: the next component, errors caught and printed
Merge_ProcessComponent ==
    /\ prog = "merge" /\ pc = "components"
    /\ \E src \in MergeSources :
          \E out \in {process_component(src.enabled, Components[idx], src.frame_count,
                                        src.size[1], src.size[2], src.sizes_match, args)} :
              /\ written' = out.writes
              /\ plan' = out.plan
              /\ exit' = out.kind
              /\ job' = [op |-> "process_component", frame_count |-> src.frame_count,
                         width |-> out.width, height |-> out.height]
    /\ idx' = idx + 1
    /\ pc' = IF idx = Len(Components) THEN "done" ELSE "components"
    /\ UNCHANGED <<call, ret, prog, args, results, storage>>

\* The input files of reduce_rotation and what they hold
InputPaths == <<Path("in", "a", 0), Path("in", "b", 0)>>
NoPath == Path("", "", None)

\* An input sheet: grid[1] x grid[2] cells of cell[1] x cell[2] pixels
Sheets ==
    {[cell |-> <<2048, 2048>>, grid |-> <<2, 2>>],
     [cell |-> <<2048, 2048>>, grid |-> <<4, 2>>],
     [cell |-> <<2048, 2048>>, grid |-> <<4, 4>>],
     [cell |-> <<2048, 2048>>, grid |-> <<4, 1>>],
     [cell |-> <<4096, 4096>>, grid |-> <<1, 1>>],
     [cell |-> <<4096, 4096>>, grid |-> <<2, 2>>],
     [cell |-> <<1100, 1200>>, grid |-> <<3, 2>>],
     [cell |-> <<1200, 1200>>, grid |-> <<5, 5>>],
     [cell |-> <<9000, 1000>>, grid |-> <<1, 1>>]}
OtherGrids == {<<2, 2>>}

PipeSkips == {1, 2}
PipeGroups == {2, 4}
PipeIndices == {<<2, 0, 0>>, <<0, 99>>, <<99>>, <<5>>}

\* --skip / --indices with --skip-type, --rotations, --animations-per-rotation, --symmetric
Selections ==
    {[skip |-> k, keep_indices |-> NoIndices, skip_type |-> "linear", rotations |-> None,
      animations_per_rotation |-> None, symmetric |-> b] : k \in PipeSkips, b \in BOOLEAN}
    \cup {[skip |-> k, keep_indices |-> NoIndices, skip_type |-> "rotation",
           rotations |-> None, animations_per_rotation |-> g, symmetric |-> b] :
              k \in PipeSkips, g \in PipeGroups, b \in BOOLEAN}
    \cup {[skip |-> 1, keep_indices |-> NoIndices, skip_type |-> "animation",
           rotations |-> g, animations_per_rotation |-> None, symmetric |-> FALSE] :
              g \in PipeGroups}
    \cup {[skip |-> None, keep_indices |-> l, skip_type |-> "linear", rotations |-> None,
           animations_per_rotation |-> None, symmetric |-> FALSE] : l \in PipeIndices}

\* --count / --size: the true frame size, the frame count of the first input, or
\* (for a single input of a few frames) neither
Hints(n, sheet) ==
    {[frame_count |-> None, frame_size |-> sheet.cell],
     [frame_count |-> sheet.grid[1] * sheet.grid[2], frame_size |-> NoSize]}
    \cup (IF n = 1 /\ sheet.grid[2] = 2
          THEN {[frame_count |-> None, frame_size |-> NoSize]} ELSE {})

Modes ==
    {[regroup |-> FALSE, keep_old |-> FALSE],
     [regroup |-> TRUE, keep_old |-> FALSE],
     [regroup |-> TRUE, keep_old |-> TRUE]}

ReduceInit ==
    /\ prog = "reduce"
    /\ \E n \in DOMAIN InputPaths, sheet \in Sheets, sel \in Selections, mode \in Modes :
          \E other \in OtherGrids \cup {sheet.grid}, hint \in Hints(n, sheet) :
             LET cell == sheet.cell
                 image(j) == IF j = 1
                             THEN SourceImage(1, sheet.grid[1] * cell[1],
                                              sheet.grid[2] * cell[2])
                             ELSE SourceImage(j, other[1] * cell[1], other[2] * cell[2])
             IN  /\ (n = 1 => other = sheet.grid)
                 /\ args = [inputs |-> SubSeq(InputPaths, 1, n),
                            images |-> [j \in 1..n |-> image(j)],
                            output |-> "", output_dir |-> "",
                            skip |-> sel.skip, keep_indices |-> sel.keep_indices,
                            frame_count |-> hint.frame_count, frame_size |-> hint.frame_size,
                            skip_type |-> sel.skip_type, rotations |-> sel.rotations,
                            animations_per_rotation |-> sel.animations_per_rotation,
                            symmetric |-> sel.symmetric,
                            regroup |-> mode.regroup, keep_old |-> mode.keep_old]
                 /\ storage = [p \in {InputPaths[j] : j \in 1..n} |->
                                 image(CHOOSE j \in 1..n : InputPaths[j] = p)]
    /\ pc = "start"
    /\ idx = 1
    /\ results = <<>> /\ written = <<>> /\ plan = NoSplit
    /\ job = NoJob /\ exit = None
    /\ call = NoJob /\ ret = None

\* a save that writes nothing
save_nothing(files, path, img) == files

\* result.save(path): the file at path is created or replaced
save(files, path, img) ==
    [p \in DOMAIN files \cup {path} |-> IF p = path THEN img ELSE files[p]]

\* os.remove(path) for every path of the list that exists
remove_all(files, paths) ==
    [p \in DOMAIN files \ Elems(paths) |-> files[p]]

\* os.path.dirname(path), os.path.basename(path) without ".png"
dirname(path) == path.dir
stem(path) == path.stem

\* os.path.join(dir, name): a file of that name in dir
join(dir, name) == Path(dir, name, 0)

\* open_and_reduce reading the file after it was created anew for the output
open_and_reduce_after_create(files, path, a) ==
    IF path \notin DOMAIN files THEN ReduceError("No such file")
    ELSE reduce_single(new_image(files[path].width, files[path].height), a)

\* reduce_single's `with Image.open(input_path)`: a missing file raises
open_and_reduce(files, path, a) ==
    IF path \notin DOMAIN files THEN ReduceError("No such file")
    ELSE reduce_single(files[path], a)

\* lines 432-435, then the choice of line 438
Main_CheckInputs ==
    /\ prog = "reduce" /\ pc = "start"
    /\ IF \E k \in DOMAIN args.inputs : args.inputs[k] \notin DOMAIN storage
       THEN pc' = "done" /\ exit' = 1
       ELSE /\ pc' = IF Len(args.inputs) = 1 /\ ~args.regroup THEN "single" ELSE "bulk"
            /\ exit' = exit
    /\ UNCHANGED <<call, ret, prog, args, idx, results, written, plan, storage, job>>

\* lines 438-455: one input, no regroup; 500-504: an error gives exit code 1
Main_Single ==
    /\ prog = "reduce" /\ pc = "single"
    /\ \E r \in {open_and_reduce(storage, args.inputs[1], args)} :
          LET given == IF args.output # "" THEN Path("", args.output, 0) ELSE args.inputs[1]
              output_path == IF args.output_dir # ""
                             THEN join(args.output_dir, stem(given))
                             ELSE given
          IN  /\ job' = [op |-> "reduce_single", input |-> 1, r |-> r]
              /\ IF r.kind = "ok"
                 THEN /\ storage' = save(storage, output_path, r.img)
                      /\ written' = <<[path |-> output_path, sheet |-> r.img]>>
                      /\ exit' = 0
                 ELSE /\ UNCHANGED <<storage, written>>
                      /\ exit' = 1
    /\ pc' = "done"
    /\ UNCHANGED <<call, ret, prog, args, idx, results, plan>>

\* line 479, save=True in place of save=not args.regroup
save_intermediate_always(a) == TRUE

\* line 479: reduce_single saves its result unless the results are to be regrouped
save_intermediate(a) == ~a.regroup

\* lines 462-482: the next input of the loop, saved as reduce_single does in lines
\* 252-255; 500-504: an error ends main with code 1
Main_ReduceNext ==
    /\ prog = "reduce" /\ pc = "bulk" /\ idx <= Len(args.inputs)
    /\ \E r \in {open_and_reduce(storage, args.inputs[idx], args)} :
          LET input_path == args.inputs[idx]
              output_dir == IF args.output_dir # "" THEN args.output_dir
                            ELSE dirname(args.inputs[1])
              out_path == IF args.regroup THEN NoPath
                          ELSE IF args.output_dir # ""
                          THEN join(output_dir, stem(input_path))
                          ELSE input_path
              saved_path == IF out_path = NoPath THEN input_path ELSE out_path
          IN  /\ job' = [op |-> "reduce_single", input |-> idx, r |-> r]
              /\ IF r.kind = "ok"
                 THEN /\ IF save_intermediate(args)
                         THEN /\ storage' = save(storage, saved_path, r.img)
                              /\ written' = <<[path |-> saved_path, sheet |-> r.img]>>
                         ELSE UNCHANGED <<storage, written>>
                      /\ results' = Append(results, [path |-> out_path, img |-> r.img,
                                                     fw |-> r.fw, fh |-> r.fh,
                                                     count |-> r.new_count])
                      /\ idx' = idx + 1
                      /\ UNCHANGED <<pc, exit>>
                 ELSE /\ pc' = "done" /\ exit' = 1
                      /\ UNCHANGED <<storage, written, results, idx>>
    /\ UNCHANGED <<call, ret, prog, args, plan>>

\* lines 486-490: the group size handed to regroup_files; 0 stands for the TypeError of
\* range(0, animations_per_rotation, None) when --indices is given
frames_per_rot(a) ==
    IF a.skip_type = "rotation" /\ a.animations_per_rotation # None
                                /\ a.animations_per_rotation # 0
    THEN IF a.skip = None THEN 0
         ELSE IF a.symmetric THEN Len(symmetric_indices(a.animations_per_rotation, a.skip))
         ELSE Len(range(0, a.animations_per_rotation, a.skip))
    ELSE None

\* save_all that also removes every file it did not write
save_all_replacing(files, writes) ==
    [p \in {writes[k].path : k \in DOMAIN writes} |->
        writes[CHOOSE k \in DOMAIN writes :
                  /\ writes[k].path = p
                  /\ \A j \in DOMAIN writes : writes[j].path = p => j <= k].sheet]

\* sheet.save(path) for every sheet of the list, in order
save_all(files, writes) ==
    [p \in DOMAIN files \cup {writes[k].path : k \in DOMAIN writes} |->
        IF \E k \in DOMAIN writes : writes[k].path = p
        THEN writes[CHOOSE k \in DOMAIN writes :
                       /\ writes[k].path = p
                       /\ \A j \in DOMAIN writes : writes[j].path = p => j <= k].sheet
        ELSE files[p]]

\* lines 484-491: after the loop, with --regroup
Main_Regroup ==
    /\ prog = "reduce" /\ pc = "bulk" /\ idx > Len(args.inputs)
    /\ args.regroup /\ results # <<>>
    /\ \E hint \in {frames_per_rot(args)} :
       \E out \in {regroup_files(results,
                                 IF args.output # "" THEN args.output
                                 ELSE stem(args.inputs[1]),
                                 IF args.output_dir # "" THEN args.output_dir
                                 ELSE dirname(args.inputs[1]),
                                 hint)} :
           /\ job' = [op |-> "regroup_files", frame_count |-> out.total_frames,
                      width |-> out.fw, height |-> out.fh, frames_per_rotation |-> hint,
                      kind |-> out.kind, msg |-> out.msg]
           /\ plan' = out.plan
           /\ written' = out.writes
           /\ storage' = save_all(storage, out.writes)
           /\ IF out.kind = "error" THEN pc' = "done" /\ exit' = 1
              ELSE IF args.keep_old THEN pc' = "done" /\ exit' = 0
              ELSE pc' = "delete" /\ exit' = exit
    /\ UNCHANGED <<call, ret, prog, args, idx, results>>

\* lines 493-497: the inputs that exist are removed; 499: return 0
Main_DeleteOld ==
    /\ prog = "reduce" /\ pc = "delete"
    /\ storage' = remove_all(storage, args.inputs)
    /\ written' = <<>>
    /\ job' = [op |-> "delete_old"]
    /\ pc' = "done" /\ exit' = 0
    /\ UNCHANGED <<call, ret, prog, args, idx, results, plan>>

\* line 499: return 0 after the loop when there is nothing to regroup
Main_Return ==
    /\ prog = "reduce" /\ pc = "bulk" /\ idx > Len(args.inputs)
    /\ ~(args.regroup /\ results # <<>>)
    /\ pc' = "done" /\ exit' = 0
    /\ UNCHANGED <<call, ret, prog, args, idx, results, written, plan, storage, job>>

Init == MergeInit \/ ReduceInit

Next ==
    \/ Merge_ProcessComponent
    \/ Main_CheckInputs
    \/ Main_Single
    \/ Main_ReduceNext
    \/ Main_Regroup
    \/ Main_DeleteOld
    \/ Main_Return

Spec == Init /\ [][Next]_vars

----------------------------------------------------------------------------
(* Properties of the pure functions, checked under SpecFn *)

Returned(fns) == pc = "returned" /\ call.fn \in fns

StrictlyAscending(s) == \A k \in 1..(Len(s) - 1) : s[k] < s[k + 1]
StrictlyDescending(s) == \A k \in 1..(Len(s) - 1) : s[k] > s[k + 1]

\* The indices a skip keeps of 0..n-1: the multiples of skip
Multiples(n, skip) == {k \in 0..(n - 1) : k % skip = 0}

\* The indices the symmetric rule keeps of 0..n-1: the multiples of skip below
\* n // 2 and their mirror images
SymmetricSet(n, skip) ==
    LET F == Multiples(n \div 2, skip) IN F \cup {n - 1 - k : k \in F}

\* C4: for every n >= 1, get_divisors(n) holds every divisor of n in 1..n exactly
\* once, holds nothing else, and is strictly descending from n down to 1.
C4_DivisorsExactDescending ==
    Returned({"get_divisors", "get_divisors_merge"}) =>
        /\ \A d \in 1..call.n :
              call.n % d = 0 => Cardinality({k \in DOMAIN ret : ret[k] = d}) = 1
        /\ \A k \in DOMAIN ret : ret[k] \in 1..call.n /\ call.n % ret[k] = 0
        /\ StrictlyDescending(ret)
        /\ ret[1] = call.n
        /\ ret[Len(ret)] = 1

\* A square, where i = n // i happens: the divisors of 36
C4_Witness ==
    /\ Returned({"get_divisors"})
    /\ call.n = 36
    /\ ret = <<36, 18, 12, 9, 6, 4, 3, 2, 1>>

\* C7: for every n >= 2 and skip >= 1, symmetric_indices(n, skip) is the ascending
\* list, without repetition, of the multiples of skip below n // 2 and their mirror
\* images n-1-k; symmetric_indices(8, 2) = [0, 2, 5, 7] and
\* symmetric_indices(4, 1) = [0, 1, 2, 3].
C7_SymmetricIndices ==
    (Returned({"symmetric_indices"}) /\ call.n >= 2) =>
        /\ StrictlyAscending(ret)
        /\ Elems(ret) = SymmetricSet(call.n, call.skip)
        /\ (call.n = 8 /\ call.skip = 2) => ret = <<0, 2, 5, 7>>
        /\ (call.n = 4 /\ call.skip = 1) => ret = <<0, 1, 2, 3>>

\* An odd count, where the middle frame belongs to neither half
C7_Witness ==
    /\ Returned({"symmetric_indices"})
    /\ call.n = 9 /\ call.skip = 3
    /\ ret = <<0, 3, 5, 8>>

\* C8: linear non-symmetric selection returns exactly the multiples of skip below
\* totalFrames, ascending: ceil(totalFrames / skip) indices; for 64 frames and skip
\* 4 these are 0, 4, ..., 60, 16 indices.
C8_LinearIndices ==
    (/\ Returned({"compute_selected_indices"})
     /\ call.skip_type = "linear" /\ ~call.symmetric) =>
        /\ StrictlyAscending(ret)
        /\ Elems(ret) = Multiples(call.total_frames, call.skip)
        /\ Len(ret) * call.skip >= call.total_frames
        /\ (Len(ret) - 1) * call.skip < call.total_frames
        /\ (call.total_frames = 64 /\ call.skip = 4) =>
              /\ Len(ret) = 16
              /\ \A k \in 1..16 : ret[k] = 4 * (k - 1)

C8_Witness ==
    /\ Returned({"compute_selected_indices"})
    /\ call.skip_type = "linear" /\ ~call.symmetric
    /\ call.total_frames = 64 /\ call.skip = 4
    /\ Len(ret) = 16 /\ ret[16] = 60

\* The table a layout call looks up
MappingOf(fn) ==
    IF fn = "get_grid_layout" THEN FRAME_COLUMN_MAPPING ELSE FRAME_COLUMN_MAPPING_merge

\* C9: the layout resolver returns the table entry for a key of the table and
\* otherwise the least c with c*c >= frameCount; rows = ceil(frameCount / columns)
\* then exists (columns >= 1) and cols*rows >= frameCount; 5 frames give 3 columns
\* and 2 rows.
C9_LayoutResolver ==
    Returned({"get_grid_layout", "get_columns"}) =>
        LET n == call.frame_count
            table == MappingOf(call.fn)
        IN  /\ n \in DOMAIN table => ret.cols = table[n]
            /\ n \notin DOMAIN table =>
                  ret.cols * ret.cols >= n /\ (ret.cols - 1) * (ret.cols - 1) < n
            /\ ret.cols >= 1
            /\ ret.rows * ret.cols >= n
            /\ (ret.rows - 1) * ret.cols < n
            /\ n = 5 => ret.cols = 3 /\ ret.rows = 2

\* A count that is in neither table: 11 frames fall back to ceil(sqrt(11)) = 4
C9_Witness ==
    /\ Returned({"get_grid_layout"})
    /\ call.frame_count = 11
    /\ ret = [cols |-> 4, rows |-> 3]

\* The indices the linear or symmetric rule keeps of one direction group
KeptOfGroup(frames_per_direction, skip, symmetric) ==
    IF symmetric THEN SymmetricSet(frames_per_direction, skip)
    ELSE Multiples(frames_per_direction, skip)

\* A per-direction call: totalFrames is directionCount groups of framesPerDirection
PerDirectionCall ==
    /\ Returned({"compute_selected_indices"})
    /\ call.skip_type = "rotation"
    /\ call.animations_per_rotation # None
    /\ call.total_frames % call.animations_per_rotation = 0

\* The indices selected are, group by group and ascending within a group, g*fpd + k
\* for every group g and every k the rule keeps of 0..fpd-1
PerDirectionExact ==
    LET fpd == call.animations_per_rotation
        groups == call.total_frames \div fpd
        kept == KeptOfGroup(fpd, call.skip, call.symmetric)
    IN  /\ StrictlyAscending(ret)
        /\ Elems(ret) = {g * fpd + k : g \in 0..(groups - 1), k \in kept}
        /\ Len(ret) = groups * Cardinality(kept)

\* Every group g of the call keeps at least one frame
NoDirectionDropped ==
    LET fpd == call.animations_per_rotation
    IN  \A g \in 0..((call.total_frames \div fpd) - 1) :
            \E k \in DOMAIN ret : ret[k] \div fpd = g

\* C10 as claimed: with skip type 'rotation' the selection is g*framesPerDirection + k
\* for every group g and every k the linear or symmetric rule keeps of
\* framesPerDirection, group by group; every direction keeps the same number of
\* frames and no direction is dropped.
C10_AsClaimed ==
    PerDirectionCall => PerDirectionExact /\ NoDirectionDropped

\* C10 amended: as claimed, except that no direction is dropped only when the rule
\* keeps a frame of framesPerDirection; the symmetric rule keeps none of a single
\* frame, so with symmetric and framesPerDirection = 1 every direction is dropped
\* and the selection is empty.
C10_PerDirectionIndices ==
    PerDirectionCall =>
        /\ PerDirectionExact
        /\ (call.symmetric /\ call.animations_per_rotation = 1) => ret = <<>>
        /\ ~(call.symmetric /\ call.animations_per_rotation = 1) => NoDirectionDropped

\* Three directions of four frames, symmetric, skip 2: frames 0 and 3 of each
C10_Witness ==
    /\ PerDirectionCall
    /\ call.total_frames = 12 /\ call.animations_per_rotation = 4
    /\ call.skip = 2 /\ call.symmetric
    /\ ret = <<0, 3, 4, 7, 8, 11>>

\* A direction-skip call: totalFrames is directionCount groups of framesPerDirection
DirectionSkipCall ==
    /\ Returned({"compute_selected_indices"})
    /\ call.skip_type = "animation"
    /\ call.rotations # None
    /\ call.total_frames % call.rotations = 0

\* C11: with skip type 'animation' the selection is, in ascending order, every frame of
\* the groups 0, skip, 2*skip, ... below directionCount and no frame of another group.
C11_DirectionSkip ==
    DirectionSkipCall =>
        LET fpd == call.total_frames \div call.rotations
            kept == {g \in 0..(call.rotations - 1) : g % call.skip = 0}
        IN  /\ StrictlyAscending(ret)
            /\ Elems(ret) = {g * fpd + a : g \in kept, a \in 0..(fpd - 1)}
            /\ Len(ret) = Cardinality(kept) * fpd
            /\ \A k \in DOMAIN ret : (ret[k] \div fpd) % call.skip = 0

\* Four directions of three frames, skip 2: directions 0 and 2 whole
C11_Witness ==
    /\ DirectionSkipCall
    /\ call.total_frames = 12 /\ call.rotations = 4 /\ call.skip = 2
    /\ ret = <<0, 1, 2, 6, 7, 8>>

\* The natural layout of a planner call, by layout mode
NaturalCols ==
    IF call.fn = "find_split_layout" THEN get_grid_layout(call.frame_count)
    ELSE IF call.row_length # None THEN call.row_length
    ELSE IF call.is_one_row THEN call.frame_count
    ELSE get_columns(call.frame_count)

NaturalRows ==
    IF call.fn = "find_split_layout_merge" /\ call.row_length = None /\ call.is_one_row
    THEN 1
    ELSE CHOOSE r \in 1..call.frame_count :
            r * NaturalCols >= call.frame_count /\ (r - 1) * NaturalCols < call.frame_count

NaturalFits ==
    /\ NaturalCols * call.width <= 8192
    /\ NaturalRows * call.height <= 8192

\* A planner call whose single frame fits maxDimension on both axes
ValidPlannerCall ==
    /\ Returned({"find_split_layout", "find_split_layout_merge"})
    /\ 8192 \div call.width >= 1
    /\ 8192 \div call.height >= 1

NoSplitAndFits == ret.kind = "none" /\ NaturalFits

PlanAndFits ==
    /\ ret.kind = "plan"
    /\ call.frame_count % (ret.cols * ret.rows) = 0
    /\ ret.cols * call.width <= 8192
    /\ ret.rows * call.height <= 8192

FixedRowLengthCall == call.fn = "find_split_layout_merge" /\ call.row_length # None

\* Fixed row length: the natural layout does not fit and either the row itself is
\* too wide or no proper divisor of frameCount is a multiple of the row length
\* with rows that fit
FixedRowLengthUnsatisfiable ==
    /\ FixedRowLengthCall
    /\ ~NaturalFits
    /\ \/ call.row_length * call.width > 8192
       \/ ~\E d \in 1..(call.frame_count - 1) :
              /\ call.frame_count % d = 0
              /\ d % call.row_length = 0
              /\ (d \div call.row_length) * call.height <= 8192

\* C1 as claimed: for every frameCount >= 1 and frame size that fits maxDimension,
\* in every layout mode, find_split_layout returns 'no split' and the natural
\* layout fits, or returns a plan with frameCount % (cols*rows) = 0,
\* cols*frameWidth <= maxDimension and rows*frameHeight <= maxDimension.
C1_AsClaimed ==
    ValidPlannerCall => NoSplitAndFits \/ PlanAndFits

\* C1 amended: as claimed in single row and free grid mode; in fixed row length
\* mode there is a third outcome, an error raised, exactly when the natural layout
\* does not fit and either row_length*frameWidth > maxDimension or no proper
\* divisor of frameCount that is a multiple of row_length has rows that fit.
C1_SplitPlannerContract ==
    ValidPlannerCall =>
        /\ NoSplitAndFits \/ PlanAndFits \/ (ret.kind = "error" /\ FixedRowLengthCall)
        /\ FixedRowLengthCall => (ret.kind = "error" <=> FixedRowLengthUnsatisfiable)

\* A fixed row length that splits: 12 frames of 2048 x 4096 in rows of 3
C1_Witness ==
    /\ ValidPlannerCall
    /\ call.fn = "find_split_layout_merge"
    /\ call.frame_count = 12 /\ call.width = 2048 /\ call.height = 4096
    /\ call.row_length = 3
    /\ ret.kind = "plan" /\ ret.num_files = 2 /\ ret.cols = 3 /\ ret.rows = 2

\* compute_selected_indices returned a list for a skip-based policy with its parameter
SkipPolicyCall ==
    /\ Returned({"compute_selected_indices"})
    /\ call.skip >= 1 /\ call.total_frames >= 1
    /\ call.skip_type = "rotation" => call.animations_per_rotation # None
    /\ call.skip_type = "animation" => call.rotations # None

\* C27: for every skip-based policy (linear, per-direction, direction skip, with or
\* without symmetric) with skip >= 1 and totalFrames >= 1, the resolved index list is
\* strictly ascending, has no duplicates, lies within [0, totalFrames), and holds
\* index 0 whenever it is not empty.
C27_IndexListOrdered ==
    SkipPolicyCall =>
        /\ ret # ValueError
        /\ StrictlyAscending(ret)
        /\ Cardinality(Elems(ret)) = Len(ret)
        /\ \A k \in DOMAIN ret : 0 <= ret[k] /\ ret[k] < call.total_frames
        /\ ret # <<>> => ret[1] = 0 /\ 0 \in Elems(ret)

\* per-direction symmetric selection over three directions of four frames
C27_Witness ==
    /\ SkipPolicyCall
    /\ call.skip_type = "rotation" /\ call.symmetric
    /\ call.total_frames = 12 /\ call.animations_per_rotation = 4 /\ call.skip = 2
    /\ ret = <<0, 3, 4, 7, 8, 11>>

\* A free grid call whose frame fits the limit and whose natural layout does not
FreeGridMustSplit ==
    /\ ValidPlannerCall
    /\ call.fn = "find_split_layout" \/ (call.row_length = None /\ ~call.is_one_row)
    /\ ~NaturalFits

\* C29: in free grid mode, whenever a single frame fits maxDimension on both axes and
\* the natural layout does not fit, the divisor search returns a plan, whose files fit
\* (at worst one frame per file on a 1 x 1 grid): the 'cannot split' outcome at the
\* end of the search, an error in one tool and None in the other, does not occur.
C29_FreeGridAlwaysSplits ==
    FreeGridMustSplit =>
        /\ ret.kind = "plan"
        /\ ret.num_files * ret.cols * ret.rows = call.frame_count
        /\ ret.num_files >= 2
        /\ ret.cols * call.width <= 8192 /\ ret.rows * call.height <= 8192

\* seven frames of 4096 x 4096 have no proper divisor but 1: seven files of one frame
C29_Witness ==
    /\ FreeGridMustSplit
    /\ call.fn = "find_split_layout"
    /\ call.frame_count = 7 /\ call.width = 4096 /\ call.height = 4096
    /\ ret.kind = "plan" /\ ret.num_files = 7 /\ ret.cols = 1 /\ ret.rows = 1

\* parse_spritesheet was called without --count and without --size
GuessCall ==
    /\ Returned({"parse_spritesheet"})
    /\ call.frame_count = None /\ call.frame_size = NoSize

\* The counts tried, in order, each with the columns and rows of its natural grid
GuessOrder ==
    <<[count |-> 64, cols |-> 8, rows |-> 8], [count |-> 32, cols |-> 8, rows |-> 4],
      [count |-> 24, cols |-> 6, rows |-> 4], [count |-> 16, cols |-> 4, rows |-> 4],
      [count |-> 12, cols |-> 4, rows |-> 3], [count |-> 8, cols |-> 4, rows |-> 2],
      [count |-> 4, cols |-> 2, rows |-> 2]>>

GridDivides(g) == call.img_width % g.cols = 0 /\ call.img_height % g.rows = 0

\* C26: with neither frame count nor frame size, parse_spritesheet takes the first
\* count of 64, 32, 24, 16, 12, 8, 4 whose natural grid divides the image width and
\* height exactly, with that grid and the frame size it gives, and raises the error
\* that asks for a hint if and only if none of the counts fits.
C26_GuessOrder ==
    GuessCall =>
        /\ ret.kind = "error" <=> \A k \in DOMAIN GuessOrder : ~GridDivides(GuessOrder[k])
        /\ ret.kind = "error" => ret.msg = "Could not determine frame count"
        /\ ret.kind # "error" =>
              \E k \in DOMAIN GuessOrder :
                  /\ GridDivides(GuessOrder[k])
                  /\ \A j \in 1..(k - 1) : ~GridDivides(GuessOrder[j])
                  /\ ret.total_frames = GuessOrder[k].count
                  /\ ret.cols = GuessOrder[k].cols /\ ret.rows = GuessOrder[k].rows
                  /\ ret.fw = call.img_width \div ret.cols
                  /\ ret.fh = call.img_height \div ret.rows

\* 1100 x 1002 is read as 12 frames although 8 and 4 fit as well
C26_Witness ==
    /\ GuessCall
    /\ call.img_width = 1100 /\ call.img_height = 1002
    /\ ret.kind = "ok" /\ ret.total_frames = 12 /\ ret.cols = 4 /\ ret.rows = 3
    /\ GridDivides(GuessOrder[6]) /\ GridDivides(GuessOrder[7])

\* The layout mode of a planner call
CallMode ==
    IF call.fn = "find_split_layout" THEN "grid"
    ELSE IF call.row_length # None THEN "row_length"
    ELSE IF call.is_one_row THEN "one_row"
    ELSE "grid"

\* frames_per_file frames can be laid out in one file in the mode of the call
CallAdmits(frames_per_file) ==
    \E cols \in 1..frames_per_file :
        /\ frames_per_file % cols = 0
        /\ cols * call.width <= 8192
        /\ (frames_per_file \div cols) * call.height <= 8192
        /\ CallMode = "row_length" => cols = call.row_length
        /\ CallMode = "one_row" => cols = frames_per_file

PlanReturned == ValidPlannerCall /\ ret.kind = "plan"

\* C24: when a split plan is returned, its frames per file is the largest proper
\* divisor of frameCount that has a valid per-file layout in the selected mode
\* (single row, fixed row length, free grid), so that the number of files is the
\* least among the equal splits that fit maxDimension.
C24_LargestDivisor ==
    PlanReturned =>
        LET frames_per_file == ret.cols * ret.rows
        IN  /\ frames_per_file < call.frame_count
            /\ call.frame_count % frames_per_file = 0
            /\ ret.num_files = call.frame_count \div frames_per_file
            /\ CallAdmits(frames_per_file)
            /\ \A d \in (frames_per_file + 1)..(call.frame_count - 1) :
                  call.frame_count % d = 0 => ~CallAdmits(d)
            /\ \A files \in 2..(ret.num_files - 1) :
                  call.frame_count % files = 0 => ~CallAdmits(call.frame_count \div files)

\* the largest proper divisor was passed over: 12 frames of 4096 x 4096 go to
\* three files of 2 x 2, six per file having no grid that fits
C24_Witness ==
    /\ PlanReturned /\ CallMode = "grid"
    /\ call.frame_count = 12 /\ call.width = 4096 /\ call.height = 4096
    /\ ret.num_files = 3 /\ ret.cols * ret.rows = 4

----------------------------------------------------------------------------
(* Properties of the sheets the two tools write, checked under Spec *)

\* The step just taken composed sheets from a frame list
Composed == job.op \in {"process_component", "regroup_files"}

\* The box of cell i (0-based, row-major) of a cols-wide grid of fw x fh cells
CellOf(img, i, cols, fw, fh) ==
    crop(img, (i % cols) * fw, (i \div cols) * fh,
         (i % cols) * fw + fw, (i \div cols) * fh + fh)

\* C2, as claimed: every sheet written by process_component or by regroup_files, in the
\* single-file path with or without the column hint and in the split path, is at most
\* 8192 pixels wide and at most 8192 pixels high.  Stated here for frames that are
\* themselves within the limit, so that a sheet that fits exists.
C2_AsClaimed ==
    (Composed /\ job.width <= MAX_DIMENSION /\ job.height <= MAX_DIMENSION) =>
        \A k \in DOMAIN written :
            /\ written[k].sheet.width <= MAX_DIMENSION
            /\ written[k].sheet.height <= MAX_DIMENSION

\* C3: when the planner returned a split plan (num_files, cols, rows) for frame_count
\* frames, cols * rows divides frame_count and is less than it, num_files >= 2,
\* num_files * cols * rows = frame_count, and each of the num_files sheets written is a
\* cols x rows grid of frame-sized cells, every one of them holding a frame.
C3_SplitPlanFiles ==
    (Composed /\ plan.kind = "plan") =>
        LET frames_per_file == plan.cols * plan.rows
        IN  /\ job.frame_count % frames_per_file = 0
            /\ frames_per_file < job.frame_count
            /\ plan.num_files >= 2
            /\ plan.num_files * frames_per_file = job.frame_count
            /\ Len(written) = plan.num_files
            /\ \A k \in DOMAIN written :
                  /\ written[k].sheet.width = plan.cols * job.width
                  /\ written[k].sheet.height = plan.rows * job.height
                  /\ \A i \in 0..(frames_per_file - 1) :
                        CellOf(written[k].sheet, i, plan.cols, job.width, job.height).parts # {}

\* regroup_files and process_component each wrote the files of a split plan
C3_Witness ==
    /\ Composed /\ plan.kind = "plan"
    /\ Len(written) = plan.num_files
    /\ plan.cols * plan.rows >= 2
    /\ job.op = "regroup_files" \/ job.frame_count = 6

\* The sheets regroup wrote are those of the merge planner's answer for the same frames
SamePartition(merge_plan) ==
    /\ merge_plan.kind = plan.kind
    /\ plan.kind = "plan" => merge_plan = plan
    /\ plan.kind = "none" =>
          /\ Len(written) = 1
          /\ written[1].sheet.width = get_columns(job.frame_count) * job.width
          /\ written[1].sheet.height =
                ceil_div(job.frame_count, get_columns(job.frame_count)) * job.height

\* C5, as claimed: for every combined frame count and frame size, regroup splits into the
\* number of files and the per-file (cols, rows) that the merge planner gives, free grid,
\* for the same total and frame size.  Stated here for the case the claim's example is
\* in: no column hint, and a frame that fits the limit.
C5_AsClaimed ==
    (/\ job.op = "regroup_files" /\ job.kind = "ok"
     /\ job.frames_per_rotation = None
     /\ job.width <= MAX_DIMENSION /\ job.height <= MAX_DIMENSION)
    => SamePartition(find_split_layout_merge(job.frame_count, job.width, job.height,
                                             FALSE, None))

\* The step just taken reduced an input with --indices
ExplicitReduce ==
    /\ job.op = "reduce_single" /\ job.r.kind = "ok"
    /\ args.keep_indices # NoIndices

\* The caller's list without the indices outside 0..total_frames-1, order and
\* duplicates kept
InRange(indices, total_frames) ==
    SelectSeq(indices, LAMBDA i : 0 <= i /\ i < total_frames)

\* C12, as claimed: with an explicit index list the selection is the caller's list
\* without the indices outside [0, totalFrames), in the caller's order and with its
\* duplicates, and one warning is emitted for each index dropped.
C12_AsClaimed ==
    ExplicitReduce =>
        LET kept == InRange(args.keep_indices, job.r.layout.total_frames)
        IN  /\ job.r.selected_indices = kept
            /\ Len(job.r.warnings) = Len(args.keep_indices) - Len(kept)

\* reduce_single is about to run on input idx
AboutToReduce ==
    /\ prog = "reduce"
    /\ pc = "single" \/ (pc = "bulk" /\ idx <= Len(args.inputs))

\* The sheet parses and the selection asked for keeps none of its frames
ResolvedEmpty ==
    LET img == storage[args.inputs[idx]]
        layout == parse_layout(img.width, img.height, args.frame_count, args.frame_size)
    IN  /\ layout.kind = "ok"
        /\ IF args.keep_indices # NoIndices
           THEN InRange(args.keep_indices, layout.total_frames) = <<>>
           ELSE compute_selected_indices(layout.total_frames, args.skip, args.skip_type,
                    args.rotations, args.animations_per_rotation, args.symmetric) = <<>>

\* C13: when the resolved index set is empty, reduce_single fails with "No frames
\* selected" having composed nothing, no file is written or overwritten, and main ends
\* with exit code 1.
C13_EmptySelection ==
    [][(AboutToReduce /\ ResolvedEmpty) =>
          /\ job'.op = "reduce_single"
          /\ job'.r.kind = "error" /\ job'.r.msg = "No frames selected"
          /\ job'.r.img = new_image(0, 0)
          /\ storage' = storage
          /\ exit' = 1 /\ pc' = "done"]_vars

\* reduce_single failed for an empty selection, every explicit index out of range
C13_Witness ==
    /\ job.op = "reduce_single"
    /\ job.r.kind = "error" /\ job.r.msg = "No frames selected"
    /\ args.keep_indices = <<99>>
    /\ exit = 1
    /\ \A j \in DOMAIN args.inputs : storage[args.inputs[j]] = args.images[j]

\* The layout parse_spritesheet finds for input j
LayoutOf(j) ==
    parse_layout(args.images[j].width, args.images[j].height, args.frame_count,
                 args.frame_size)

\* A group-preserving reduction of whole direction groups: per-direction skip, or
\* direction skip, on inputs whose frame count is a whole number of groups
GroupPreserving ==
    /\ prog = "reduce" /\ args.skip # None
    /\ \A j \in DOMAIN args.images :
          /\ LayoutOf(j).kind = "ok"
          /\ \/ /\ args.skip_type = "rotation" /\ args.animations_per_rotation # None
                /\ LayoutOf(j).total_frames % args.animations_per_rotation = 0
             \/ /\ args.skip_type = "animation" /\ args.rotations # None
                /\ LayoutOf(j).total_frames % args.rotations = 0

\* The direction group a pasted frame came from: its input file and the number of the
\* group its cell belongs to in that file
GroupOf(part) ==
    LET layout == LayoutOf(part.file)
        index == (part.sy \div layout.fh) * layout.cols + (part.sx \div layout.fw)
        size == IF args.skip_type = "rotation" THEN args.animations_per_rotation
                ELSE layout.total_frames \div args.rotations
    IN  <<part.file, index \div size>>

\* No row of the sheet holds frames of two groups
RowsAligned(sheet) ==
    \A p, q \in sheet.parts : p.y = q.y => GroupOf(p) = GroupOf(q)

\* the sheet reduce_single composed keeps each row within one group
ReduceRowsAligned ==
    (GroupPreserving /\ job.op = "reduce_single" /\ job.r.kind = "ok")
    => RowsAligned(job.r.img)

\* every sheet regroup_files wrote keeps each row within one group
RegroupRowsAligned ==
    (GroupPreserving /\ job.op = "regroup_files" /\ job.kind = "ok")
    => \A k \in DOMAIN written : RowsAligned(written[k].sheet)

\* C14, as claimed: after a group-preserving reduction every row of every output sheet
\* holds frames of exactly one original direction group, in the sheet reduce_single
\* composes and in every file regroup writes, single-file and split path alike.
C14_AsClaimed ==
    ReduceRowsAligned /\ RegroupRowsAligned

\* The step just taken composed, or refused to compose, frames larger than the limit
FrameTooLarge ==
    /\ Composed
    /\ job.frame_count >= 1
    /\ job.width > MAX_DIMENSION \/ job.height > MAX_DIMENSION

\* C15, as claimed: when a single frame exceeds maxDimension on an axis the planner
\* fails with an error, returning neither a plan nor 'no split needed', and no sheet
\* is written.
C15_AsClaimed ==
    FrameTooLarge => plan.kind = "error" /\ written = <<>>

\* The layout mode of the planner call made by the step just taken: the merge tool has
\* a fixed row length, one row, or the column table; the regroup tool has its grid
JobMode ==
    IF job.op = "regroup_files" THEN "grid"
    ELSE IF args.row_length # None THEN "row_length"
    ELSE IF args.is_one_row THEN "one_row"
    ELSE "grid"

JobNaturalCols ==
    IF job.op = "regroup_files" THEN get_grid_layout(job.frame_count)
    ELSE IF JobMode = "row_length" THEN args.row_length
    ELSE IF JobMode = "one_row" THEN job.frame_count
    ELSE get_columns(job.frame_count)

JobNaturalFits ==
    /\ JobNaturalCols * job.width <= MAX_DIMENSION
    /\ ceil_div(job.frame_count, JobNaturalCols) * job.height <= MAX_DIMENSION

\* Some proper divisor of the frame count is a cols x rows grid that fits the limit
\* and is allowed by the mode
JobAdmitsSplit ==
    \E frames_per_file \in 1..(job.frame_count - 1) :
        /\ job.frame_count % frames_per_file = 0
        /\ \E cols \in 1..frames_per_file :
              /\ frames_per_file % cols = 0
              /\ cols * job.width <= MAX_DIMENSION
              /\ (frames_per_file \div cols) * job.height <= MAX_DIMENSION
              /\ JobMode = "row_length" => cols = args.row_length
              /\ JobMode = "one_row" => cols = frames_per_file

PlannerCalled == Composed /\ job.frame_count >= 1 /\ job.width >= 1 /\ job.height >= 1

\* C16, as claimed: when the natural layout does not fit maxDimension and no proper
\* divisor of the frame count admits a per-file grid in the selected mode, the planner
\* fails, which differs from 'no split needed', and no sheet is composed.
C16_AsClaimed ==
    (PlannerCalled /\ ~JobNaturalFits /\ ~JobAdmitsSplit) =>
        plan.kind = "error" /\ written = <<>>

\* Every input has been reduced and regroup_files is about to be called
AboutToRegroup ==
    /\ prog = "reduce" /\ pc = "bulk" /\ idx > Len(args.inputs)
    /\ args.regroup /\ results # <<>>

\* Some reduced input has a frame size other than the first one's
FrameSizeMismatch ==
    \E k \in 2..Len(results) :
        results[k].fw # results[1].fw \/ results[k].fh # results[1].fh

\* C17: when an input of a regroup has a frame size other than the first input's,
\* regroup_files fails with the frame-size-mismatch error before it extracts or
\* composes anything: it writes no file, storage stays as it was with every input
\* file still there, and main ends with exit code 1 without deleting anything.
C17_MismatchAborts ==
    [][(AboutToRegroup /\ FrameSizeMismatch) =>
          /\ job'.op = "regroup_files"
          /\ job'.kind = "error" /\ job'.msg = "Frame size mismatch in regroup"
          /\ job'.frame_count = 0
          /\ written' = <<>> /\ plan' = NoSplit
          /\ storage' = storage
          /\ \A k \in DOMAIN args.inputs : args.inputs[k] \in DOMAIN storage'
          /\ pc' = "done" /\ exit' = 1]_vars

C17_Witness ==
    /\ prog = "reduce" /\ pc = "done" /\ exit = 1
    /\ job.op = "regroup_files" /\ job.msg = "Frame size mismatch in regroup"
    /\ Len(results) = 2 /\ results[2].fw # results[1].fw
    /\ DOMAIN storage = Elems(args.inputs)

\* The files main found on storage when it started
SourceFiles ==
    [p \in Elems(args.inputs) |-> args.images[CHOOSE j \in DOMAIN args.inputs : args.inputs[j] = p]]

\* A regroup run that has not called regroup_files yet
BeforeRegroup ==
    prog = "reduce" /\ args.regroup /\ job.op \in {"none", "reduce_single"}

\* C18: in regroup mode nothing is written until every input has been loaded and
\* reduced: while the inputs are being reduced, and after one of them, at whatever
\* position, has failed and ended the run, storage holds the input files exactly as
\* they were and no other file.
C18_NoWriteBeforeRegroup ==
    BeforeRegroup => storage = SourceFiles /\ written = <<>>

C18_Witness ==
    /\ BeforeRegroup
    /\ pc = "done" /\ exit = 1
    /\ job.op = "reduce_single" /\ job.input = 2 /\ job.r.kind = "error"
    /\ Len(results) = 1
    /\ storage = SourceFiles

\* regroup_files returned after writing its sheets
Regrouped == job.op = "regroup_files" /\ job.kind = "ok" /\ written # <<>>

\* The number of frames of the reduced inputs before the k-th
RECURSIVE CountBefore(_)
CountBefore(k) == IF k = 1 THEN 0 ELSE CountBefore(k - 1) + results[k - 1].count

\* Frame g (0-based) of the output files read row-major in index order, each file
\* holding per_file frames
OutputFrame(g, per_file) ==
    LET sheet == written[(g \div per_file) + 1].sheet
    IN  CellOf(sheet, g % per_file, sheet.width \div job.width, job.width, job.height)

\* Frame i (0-based) of the k-th reduced input, with the columns its own width gives
InputFrame(k, i) ==
    LET img == results[k].img
    IN  CellOf(img, i, img.width \div job.width, job.width, job.height)

\* C19: regroup preserves the whole frame sequence.  With each input's column count
\* recovered as its pixel width // frame width, the frames read row-major from the
\* output files in index order are the frames of input 1, then input 2, ..., in their
\* order: the total is the sum of the inputs' frame counts, the files hold room for
\* exactly that many frames or (one file) a last row padded with empty cells, and
\* output frame CountBefore(k) + i is frame i of input k.
C19_SequencePreserved ==
    Regrouped =>
        LET total == CountBefore(Len(results) + 1)
            first == written[1].sheet
            capacity == (first.width \div job.width) * (first.height \div job.height)
            per_file == IF Len(written) = 1 THEN total ELSE capacity
        IN  /\ job.frame_count = total
            /\ Len(written) = 1 => capacity >= total
            /\ Len(written) > 1 => Len(written) * capacity = total
            /\ \A k \in DOMAIN results : \A i \in 0..(results[k].count - 1) :
                  OutputFrame(CountBefore(k) + i, per_file) = InputFrame(k, i)
            /\ \A g \in total..(capacity - 1) :
                  Len(written) = 1 =>
                      CellOf(first, g, first.width \div job.width,
                             job.width, job.height).parts = {}

\* two inputs whose frames are written to two or more files, the second input's
\* frames not starting at a file boundary of their own
C19_Witness ==
    /\ Regrouped /\ Len(results) = 2 /\ Len(written) >= 2
    /\ results[1].count >= 2 /\ results[2].count >= 2
    /\ InputFrame(2, 0).parts # {}
    /\ OutputFrame(CountBefore(2), job.frame_count \div Len(written)) = InputFrame(2, 0)

\* The step removes a file from storage
DeletesFile == DOMAIN storage \ DOMAIN storage' # {}

\* Every sheet regroup_files returned is on storage under its path
OutputsWritten ==
    \A k \in DOMAIN written :
        written[k].path \in DOMAIN storage /\ storage[written[k].path] = written[k].sheet

\* C20: input files are deleted only by the caller and only after regroup_files has
\* returned successfully with all its output files written.  A step of the tool that
\* removes a file is the caller's deletion step, taken without --keep-old right after
\* a successful regroup_files whose sheets are all on storage, and it removes input
\* files only; the regroup_files step itself removes no file, and when it fails
\* storage is left as it was and the run ends, so that no input is ever deleted.
C20_DeleteOnlyAfterRegroup ==
    [][prog = "reduce" =>
          /\ DeletesFile =>
                /\ pc = "delete" /\ job'.op = "delete_old"
                /\ job.op = "regroup_files" /\ job.kind = "ok"
                /\ args.regroup /\ ~args.keep_old
                /\ OutputsWritten
                /\ DOMAIN storage \ DOMAIN storage' \subseteq Elems(args.inputs)
          /\ job'.op = "regroup_files" => DOMAIN storage \subseteq DOMAIN storage'
          /\ (job'.op = "regroup_files" /\ job'.kind = "error") =>
                storage' = storage /\ pc' = "done" /\ exit' = 1]_vars

\* the inputs were deleted after a regroup into two or more files, which remain
C20_Witness ==
    /\ prog = "reduce" /\ job.op = "delete_old" /\ pc = "done" /\ exit = 0
    /\ Len(args.inputs) = 2
    /\ Elems(args.inputs) \cap DOMAIN storage = {}
    /\ Cardinality(DOMAIN storage) >= 2

\* Several inputs reduced one by one, each overwritten in place, at least one tried
BatchRun ==
    /\ prog = "reduce" /\ ~args.regroup /\ Len(args.inputs) >= 2
    /\ job.op = "reduce_single"

\* C21: in non-regroup batch mode the files are processed strictly in input order and
\* nothing is rolled back: the inputs reduced so far are exactly the first ones of the
\* list, each overwritten with its reduced sheet, and when file k fails the run ends
\* with file k and every file after it exactly as they were.
C21_NoRollback ==
    BatchRun =>
        /\ job.input = IF job.r.kind = "ok" THEN Len(results) ELSE Len(results) + 1
        /\ job.r.kind = "error" => pc = "done" /\ exit = 1 /\ idx = job.input
        /\ DOMAIN storage = Elems(args.inputs)
        /\ \A j \in DOMAIN args.inputs :
              storage[args.inputs[j]] = IF j <= Len(results) THEN results[j].img
                                        ELSE args.images[j]

\* the second file failed after the first was overwritten with a different sheet
C21_Witness ==
    /\ BatchRun /\ job.input = 2 /\ job.r.kind = "error"
    /\ Len(results) = 1
    /\ storage[args.inputs[1]] = results[1].img
    /\ results[1].img # args.images[1]
    /\ storage[args.inputs[2]] = args.images[2]

\* C22, as claimed: in independent-file batch mode an error while processing one file
\* is caught and logged and processing continues with the next, so that at the end
\* every input that can be processed has been overwritten with its reduced sheet; the
\* merge tool likewise goes on to the next component after a failing one.
C22_AsClaimed ==
    /\ (BatchRun /\ pc = "done") =>
          \A j \in DOMAIN args.inputs :
              LET r == reduce_single(args.images[j], args)
              IN  r.kind = "ok" => storage[args.inputs[j]] = r.img
    /\ (prog = "merge" /\ job.op = "process_component" /\ exit = "error") =>
          (pc = "done" <=> idx > Len(Components))

\* process_component wrote its sheets with a fixed row length
FixedRowLengthSheets ==
    /\ prog = "merge" /\ job.op = "process_component"
    /\ args.row_length # None /\ written # <<>>

\* C23: a fixed row length overrides single-row mode and the column table.  Every
\* sheet written, the only one or one file of a split, is row_length frames wide with
\* the frames in rows of row_length, and a split plan has cols = row_length and a
\* frames-per-file that is a proper divisor of the frame count, a multiple of
\* row_length, and whose rows are within maxDimension.
C23_FixedRowLength ==
    FixedRowLengthSheets =>
        LET cols == args.row_length
            frames_per_file == IF plan.kind = "plan" THEN plan.cols * plan.rows
                               ELSE job.frame_count
            rows == ceil_div(frames_per_file, cols)
        IN  /\ plan.kind = "plan" =>
                  /\ plan.cols = cols
                  /\ frames_per_file < job.frame_count
                  /\ job.frame_count % frames_per_file = 0
                  /\ frames_per_file % cols = 0
                  /\ (frames_per_file \div cols) * job.height <= MAX_DIMENSION
                  /\ Len(written) = job.frame_count \div frames_per_file
            /\ plan.kind = "none" => Len(written) = 1
            /\ \A k \in DOMAIN written :
                  /\ written[k].sheet.width = cols * job.width
                  /\ written[k].sheet.height = rows * job.height
                  /\ \A i \in 0..(frames_per_file - 1) :
                        CellOf(written[k].sheet, i, cols, job.width, job.height)
                          = SourceImage((k - 1) * frames_per_file + i + 1,
                                        job.width, job.height)

\* single-row mode was asked for as well, and the frames were split in rows of two
C23_Witness ==
    /\ FixedRowLengthSheets /\ args.is_one_row
    /\ plan.kind = "plan" /\ plan.cols = 2 /\ plan.rows = 2
    /\ job.frame_count = 8 /\ Len(written) = 2

\* The step reduces the next input and saves the result over the input file
InPlaceStep ==
    /\ prog = "reduce" /\ ~args.regroup
    /\ pc = "single" \/ (pc = "bulk" /\ idx <= Len(args.inputs))
    /\ job'.op = "reduce_single" /\ job'.r.kind = "ok"
    /\ written' # <<>> /\ written'[1].path = args.inputs[job'.input]

\* C25: reduce_single writes only after the input is decoded and the canvas composed.
\* When the output path is the input path, the file found before the step is the
\* original, the file after the step is the composed canvas, and cell i of that
\* canvas shows frame selected_indices[i] of the original file.
C25_InPlaceOverwrite ==
    [][InPlaceStep =>
          LET path == args.inputs[job'.input]
              r == job'.r
          IN  /\ storage[path] = args.images[job'.input]
              /\ storage'[path] = r.img
              /\ r.img.width = r.new_cols * r.fw /\ r.img.height = r.new_rows * r.fh
              /\ \A i \in DOMAIN r.selected_indices :
                    /\ CellOf(storage'[path], i - 1, r.new_cols, r.fw, r.fh)
                         = CellOf(storage[path], r.selected_indices[i], r.layout.cols,
                                  r.fw, r.fh)
                    /\ CellOf(storage'[path], i - 1, r.new_cols, r.fw, r.fh).parts # {}]_vars

\* a sheet was overwritten in place with fewer frames than it had
C25_Witness ==
    /\ prog = "reduce" /\ ~args.regroup /\ pc = "done" /\ exit = 0
    /\ job.op = "reduce_single" /\ job.r.kind = "ok"
    /\ written[1].path = args.inputs[job.input]
    /\ storage[written[1].path] = job.r.img
    /\ Len(job.r.selected_indices) >= 2
    /\ Len(job.r.selected_indices) < job.r.layout.total_frames
    /\ job.r.img # args.images[job.input]

\* C28, as claimed: after a successful regroup followed by the deletion of the
\* original inputs, every file regroup_files wrote still exists with the sheet written
\* to it; the deletion step removes no path that regroup_files has just written, also
\* when prefix and directory are taken from the first input.
C28_AsClaimed ==
    [][(prog = "reduce" /\ pc = "delete") =>
          \A k \in DOMAIN written :
              /\ written[k].path \in DOMAIN storage'
              /\ storage'[written[k].path] = written[k].sheet]_vars

\* reduce_single saved a sheet
SheetWritten ==
    /\ prog = "reduce" /\ ~args.regroup
    /\ job.op = "reduce_single" /\ job.r.kind = "ok"
    /\ written # <<>> /\ written[1].sheet = job.r.img

\* C30, as claimed: a sheet written by reduce_single with N frames on a cols x rows
\* grid of fw x fh frames is parsed back by parse_spritesheet, given the frame count
\* N, with the same cols, rows, fw and fh, for every layout reduce_single produces,
\* group-aligned ones included.
C30_AsClaimed ==
    SheetWritten =>
        parse_layout(written[1].sheet.width, written[1].sheet.height,
                     job.r.new_count, NoSize)
          = Parsed(job.r.new_cols, job.r.new_rows, job.r.fw, job.r.fh, job.r.new_count)

\* The step just taken reduced an input keeping every frame, in order, on the grid
\* the frames were extracted with
IdentityReduce ==
    /\ job.op = "reduce_single" /\ job.r.kind = "ok"
    /\ job.r.selected_indices = [k \in 1..job.r.layout.total_frames |-> k - 1]
    /\ job.r.new_cols = job.r.layout.cols
    /\ job.r.new_rows = job.r.layout.rows

\* C6: when all frames 0..frameCount-1 of a sheet are kept in order and composed on the
\* grid they were extracted with, every cell of the result shows exactly what the same
\* cell of the original shows, and the canvas is that grid.
C6_RoundTrip ==
    IdentityReduce =>
        LET layout == job.r.layout
        IN  /\ job.r.img.width = layout.cols * layout.fw
            /\ job.r.img.height = layout.rows * layout.fh
            /\ \A i \in 0..(layout.total_frames - 1) :
                  CellOf(job.r.img, i, layout.cols, layout.fw, layout.fh)
                    = CellOf(args.images[job.input], i, layout.cols, layout.fw, layout.fh)

\* an identity reduction of a sheet of at least two rows and two columns
C6_Witness ==
    /\ IdentityReduce
    /\ job.r.layout.cols >= 2 /\ job.r.layout.rows >= 2
    /\ job.r.img.parts # {}

====
